---- MODULE Spec2Model ----
(***************************************************************************)
(* Model of the world-simulation backend: the WorldState transforms        *)
(* (src/engine/worldState.js), the tick orchestrator WorldSimulator        *)
(* (src/engine/simulator.js), the decision collection of AgentManager and  *)
(* the action resolution of EventResolver, together with the command       *)
(* surface of the server that drives them.                                 *)
(***************************************************************************)
EXTENDS Integers, Sequences, FiniteSets, TLC

(***************************************************************************)
(* Bounds of the model.                                                    *)
(***************************************************************************)
\* magnitude of the large negative delta; half of it is the positive delta
BigDelta == 200
\* executeTick invocations that may be in flight at once
MaxInFlight == 2
\* executeTick invocations in flight at once in the specifications that
\* bound the overlap of ticks
MaxNarrow == 1
\* start() calls (and so timer handles) that may be live at once
MaxStarts == 2
\* start() calls live at once in the specifications that bound their overlap
MaxNarrowStarts == 1

\* decisions in one call of resolveActions in the resolution specification
MaxResolved == 2
\* ticks are loaded only while the persisted tick counter is below this
MaxTick == 2
\* resolved events are appended only while the log is no longer than this
MaxEvents == 1

\* the stat deltas supplied by the resolution capability
DeltaValues == {0 - BigDelta, BigDelta \div 2}

NoId == "none"

Min(a, b) == IF a < b THEN a ELSE b
Max(a, b) == IF a > b THEN a ELSE b

(***************************************************************************)
(* src/db/models.js                                                        *)
(***************************************************************************)
clampValue(value, min, max) == Max(min, Min(max, value))

(***************************************************************************)
(* State.                                                                  *)
(*   worldState  the in-memory world state value handed to the WorldState  *)
(*               transforms (the transforms specification)                 *)
(*   db          the world_states document of the run                        *)
(*   isRunning, tickInterval   the fields of the WorldSimulator              *)
(*   timers      the interval timers of the simulator that are armed         *)
(*   ticks       the executeTick invocations, by slot                        *)
(*   starts      the start() calls (create route, resume route), by slot     *)
(*   pauseCmd    the pause route handler                                     *)
(*   autoStop    the auto-stop timer of the create route and its complete() *)
(*   pausedSince pause() has returned and start() was not called since       *)
(*   lastFinish  how the executeTick that returned last ended                *)
(*   batch       the decision batch of a tick: the progress and the results  *)
(*               of collectDecisions and resolveActions (the batch           *)
(*               specification)                                              *)
(*   call        the last call of a WorldState transform or of a pure        *)
(*               function: its name, its arguments, the state it was given   *)
(*               and what it returned (the function specifications)          *)
(***************************************************************************)
VARIABLES worldState,
          db, isRunning, tickInterval, timers, ticks, starts, pauseCmd,
          autoStop, pausedSince, lastFinish,
          batch,
          call

mutatorVars == <<worldState>>

\* no call was made yet
NoCall == [op |-> "none"]

simVars == <<db, isRunning, tickInterval, timers, ticks, starts, pauseCmd,
             autoStop, pausedSince, lastFinish>>

vars == <<worldState,
          db, isRunning, tickInterval, timers, ticks, starts, pauseCmd,
          autoStop, pausedSince, lastFinish,
          batch, call>>

StatNames == {"power", "stability", "technology", "resources", "population"}

\* ids of the countries of the world, in array order
CountryIds == <<"c1", "c2">>
\* an id that names no country of the state
AbsentId == "zz"

EmptyMap == [x \in {} |-> 0]

\* a country document of the WorldStateSchema
Country(id, power, stability, technology, resources, population) ==
  [id |-> id, power |-> power, stability |-> stability,
   technology |-> technology, resources |-> resources,
   population |-> population, collapsing |-> FALSE, ideology |-> id,
   alliances |-> <<>>, tensions |-> EmptyMap, history |-> <<>>]

\* Array.prototype.find over worldState.countries: index of the country or 0
FindCountry(countries, countryId) ==
  IF \E i \in 1..Len(countries) : countries[i].id = countryId
  THEN CHOOSE i \in 1..Len(countries) :
         /\ countries[i].id = countryId
         /\ \A j \in 1..(i-1) : countries[j].id # countryId
  ELSE 0

(***************************************************************************)
(* WorldState.applyChanges, the body of the loop for one addressed         *)
(* country: a delta is applied only when it is defined.                    *)
(***************************************************************************)
Defined(deltas, stat) == stat \in DOMAIN deltas

ApplyPower(country, deltas) ==
  IF Defined(deltas, "power")
  THEN clampValue(country.power + deltas["power"], 0, 100)
  ELSE country.power

ApplyStability(country, deltas) ==
  IF Defined(deltas, "stability")
  THEN clampValue(country.stability + deltas["stability"], 0, 100)
  ELSE country.stability

ApplyTechnology(country, deltas) ==
  IF Defined(deltas, "technology")
  THEN clampValue(country.technology + deltas["technology"], 0, 100)
  ELSE country.technology

\* the resources delta added without the clamp
ApplyResources_unclamped(country, deltas) ==
  IF Defined(deltas, "resources")
  THEN country.resources + deltas["resources"]
  ELSE country.resources

ApplyResources(country, deltas) ==
  IF Defined(deltas, "resources")
  THEN clampValue(country.resources + deltas["resources"], 0, 100)
  ELSE country.resources

ApplyPopulation(country, deltas) ==
  IF Defined(deltas, "population")
  THEN Max(0, country.population + deltas["population"])
  ELSE country.population

\* the ceiling put on the power before the delta is added
ApplyDeltas_ceilingFirst(country, deltas) ==
  LET stability  == ApplyStability(country, deltas)
      lowered    == [country EXCEPT
                       !.power = IF stability < 5 THEN Min(@, 20) ELSE @]
      power      == ApplyPower(lowered, deltas)
      collapsing == stability < 20 /\ power < 30
  IN  [country EXCEPT
         !.power      = power,
         !.stability  = stability,
         !.technology = ApplyTechnology(country, deltas),
         !.resources  = ApplyResources(country, deltas),
         !.population = ApplyPopulation(country, deltas),
         !.collapsing = collapsing]

ApplyDeltas(country, deltas) ==
  LET power      == ApplyPower(country, deltas)
      stability  == ApplyStability(country, deltas)
      collapsing == stability < 20 /\ power < 30
  IN  [country EXCEPT
         !.power      = IF stability < 5 THEN Min(power, 20) ELSE power,
         !.stability  = stability,
         !.technology = ApplyTechnology(country, deltas),
         !.resources  = ApplyResources(country, deltas),
         !.population = ApplyPopulation(country, deltas),
         !.collapsing = collapsing]

\* WorldState.applyChanges: every entry of changes whose key is the id of a
\* country of the state is applied to that country; other keys are skipped.
applyChanges(ws, changes) ==
  [ws EXCEPT !.countries =
     [i \in 1..Len(ws.countries) |->
        IF ws.countries[i].id \in DOMAIN changes
           /\ FindCountry(ws.countries, ws.countries[i].id) = i
        THEN ApplyDeltas(ws.countries[i], changes[ws.countries[i].id])
        ELSE ws.countries[i]]]

(***************************************************************************)
(* WorldState.addEvent: the event is stamped with the state's tick and     *)
(* year, appended, and the log is cut to its last EventCap entries.        *)
(***************************************************************************)
EventCap == 100

\* Array.prototype.slice(-n)
SliceLast(seq, n) ==
  IF Len(seq) > n THEN SubSeq(seq, Len(seq) - n + 1, Len(seq)) ELSE seq

\* the log cut to its first EventCap entries, which drops the newest
addEvent_dropsNewest(ws, event) ==
  LET stamped == [event EXCEPT !.tick = ws.tick, !.year = ws.year]
      pushed  == Append(ws.globalEvents, stamped)
  IN  [ws EXCEPT !.globalEvents =
         IF Len(pushed) > EventCap THEN SubSeq(pushed, 1, EventCap) ELSE pushed]

addEvent(ws, event) ==
  LET stamped == [event EXCEPT !.tick = ws.tick, !.year = ws.year]
      pushed  == Append(ws.globalEvents, stamped)
  IN  [ws EXCEPT !.globalEvents =
         IF Len(pushed) > EventCap THEN SliceLast(pushed, EventCap) ELSE pushed]

(***************************************************************************)
(* WorldState.addCountryHistory: the entry is appended to the history of   *)
(* the country, which is cut to its last HistoryCap entries; nothing       *)
(* happens for an id that names no country.  The state is changed in       *)
(* place; the value here is the state after the call.                      *)
(***************************************************************************)
HistoryCap == 10

addCountryHistory(ws, countryId, historyEntry) ==
  LET at == FindCountry(ws.countries, countryId)
  IN  IF at = 0 THEN ws
      ELSE LET pushed == Append(ws.countries[at].history, historyEntry)
           IN  [ws EXCEPT !.countries[at].history =
                  IF Len(pushed) > HistoryCap
                  THEN SliceLast(pushed, HistoryCap) ELSE pushed]

RECURSIVE addEvents(_, _)
\* the loop of executeTick that appends the resolved events in order
addEvents(ws, events) ==
  IF events = <<>> THEN ws
  ELSE addEvents(addEvent(ws, Head(events)), Tail(events))

(***************************************************************************)
(* WorldState.applyTensionChanges.  Tensions are held in tenths, so that   *)
(* the reciprocal delta 0.7 * delta of an integer delta is an integer:     *)
(* a tension t of the program is the value 10 * t here.                    *)
(***************************************************************************)
TensionScale == 10
ReciprocalTenths == 7
TensionMin == 0 - 100 * TensionScale
TensionMax == 100 * TensionScale

\* country.tensions[id] || 0
TensionOf(country, id) ==
  IF id \in DOMAIN country.tensions THEN country.tensions[id] ELSE 0

SetTension(country, id, value) ==
  [country EXCEPT !.tensions =
     [k \in (DOMAIN country.tensions) \cup {id} |->
        IF k = id THEN value ELSE country.tensions[k]]]

\* the entry applied with the reciprocal tension written without the clamp
ApplyTensionEntry_unclamped(ws, e) ==
  LET a == FindCountry(ws.countries, e.actor)
  IN  IF a = 0 THEN ws
      ELSE
        LET ws1 == [ws EXCEPT !.countries[a] =
                      SetTension(ws.countries[a], e.target,
                        clampValue(TensionOf(ws.countries[a], e.target)
                                     + TensionScale * e.delta,
                                   TensionMin, TensionMax))]
            t   == FindCountry(ws1.countries, e.target)
        IN  IF t = 0 THEN ws1
            ELSE [ws1 EXCEPT !.countries[t] =
                    SetTension(ws1.countries[t], e.actor,
                      TensionOf(ws1.countries[t], e.actor)
                        + ReciprocalTenths * e.delta)]

\* one (actor, target, delta) entry of the inner loop
ApplyTensionEntry(ws, e) ==
  LET a == FindCountry(ws.countries, e.actor)
  IN  IF a = 0 THEN ws
      ELSE
        LET ws1 == [ws EXCEPT !.countries[a] =
                      SetTension(ws.countries[a], e.target,
                        clampValue(TensionOf(ws.countries[a], e.target)
                                     + TensionScale * e.delta,
                                   TensionMin, TensionMax))]
            t   == FindCountry(ws1.countries, e.target)
        IN  IF t = 0 THEN ws1
            ELSE [ws1 EXCEPT !.countries[t] =
                    SetTension(ws1.countries[t], e.actor,
                      clampValue(TensionOf(ws1.countries[t], e.actor)
                                   + ReciprocalTenths * e.delta,
                                 TensionMin, TensionMax))]

RECURSIVE applyTensionChanges(_, _)
\* tensionChanges is the mapping flattened in its iteration order: a
\* sequence of records [actor, target, delta]
applyTensionChanges(ws, tensionChanges) ==
  IF tensionChanges = <<>> THEN ws
  ELSE applyTensionChanges(ApplyTensionEntry(ws, Head(tensionChanges)),
                           Tail(tensionChanges))

(***************************************************************************)
(* metrics.js: calculateStabilityIndex and shouldTerminate.  The           *)
(* arithmetic is done on exact fractions over the common denominator Den   *)
(* and rounded half up, as Math.round does for non-negative values.        *)
(***************************************************************************)
RECURSIVE SumSeq(_)
SumSeq(seq) == IF seq = <<>> THEN 0 ELSE Head(seq) + SumSeq(Tail(seq))

RECURSIVE SumSet(_)
SumSet(S) == IF S = {} THEN 0
             ELSE LET x == CHOOSE y \in S : TRUE IN x[2] + SumSet(S \ {x})

\* Math.round of num / den for num >= 0, den > 0
RoundDiv(num, den) == (2 * num + den) \div (2 * den)

\* the negative tension entries of all countries, as <<position, -value>>
NegativeTensions(countries) ==
  {<< <<i, k>>, 0 - countries[i].tensions[k] >> :
     <<i, k>> \in {ik \in (1..Len(countries)) \X
                           UNION {DOMAIN countries[j].tensions :
                                    j \in 1..Len(countries)} :
                     /\ ik[2] \in DOMAIN countries[ik[1]].tensions
                     /\ countries[ik[1]].tensions[ik[2]] < 0}}

calculateStabilityIndex(ws) ==
  LET countries == ws.countries
      n == Len(countries)
  IN
  IF n = 0
  THEN [stabilityIndex |-> 0, explanation |-> "No countries exist",
        ideologicalDiversity |-> 0, conflictLevel |-> 0, survivalRate |-> 0]
  ELSE
    LET sumStability == SumSeq([i \in 1..n |-> countries[i].stability])
        sumPower     == SumSeq([i \in 1..n |-> countries[i].power])
        sumPowerSq   == SumSeq([i \in 1..n |-> countries[i].power * countries[i].power])
        \* powerVariance = varNum / (n * n)
        varNum       == n * sumPowerSq - sumPower * sumPower
        \* normalizedPowerVariance = npvNum / (4 * n * n)
        npvNum       == Min(400 * n * n, varNum)
        neg          == NegativeTensions(countries)
        tensionCount == Cardinality(neg)
        \* avgTension = totalTensions / tDen (tensions are in tenths)
        tDen         == IF tensionCount > 0 THEN TensionScale * tensionCount ELSE 1
        totalTensions == SumSet(neg)
        \* conflictLevel = conflictNum / tDen
        conflictNum  == clampValue(totalTensions, 0, 100 * tDen)
        uniqueIdeologies == Cardinality({countries[i].ideology : i \in 1..n})
        surviving    == Cardinality({i \in 1..n : countries[i].stability > 20})
        Den          == 40 * n * n * tDen
        indexNum     == 4 * sumStability * 4 * n * tDen
                        + 30 * surviving * 40 * n * tDen
                        + (100 * tDen - conflictNum) * 8 * n * n
                        + (400 * n * n - npvNum) * tDen
        clamped      == clampValue(indexNum, 0, 100 * Den)
    IN  [stabilityIndex       |-> RoundDiv(clamped, Den),
         ideologicalDiversity |-> RoundDiv(uniqueIdeologies * 100, n),
         conflictLevel        |-> RoundDiv(conflictNum, tDen),
         survivalRate         |-> RoundDiv(surviving * 100, n),
         avgStability         |-> RoundDiv(sumStability, n),
         powerImbalance       |-> RoundDiv(npvNum, 4 * n * n)]

\* e.stabilityIndex || 0
StabilityIndexOf(e) ==
  IF "stabilityIndex" \in DOMAIN e THEN e.stabilityIndex ELSE 0

\* the tick summaries among the last 20 entries of the log
RecentStability(ws) ==
  SelectSeq(SliceLast(ws.globalEvents, 20), LAMBDA e : e.type = "TICK_SUMMARY")

\* the time limit looked at after the hegemony
shouldTerminate_hegemonyFirst(ws, maxYears) ==
  LET powerfulNations == {i \in 1..Len(ws.countries) :
                            ws.countries[i].power > 50 /\ ws.countries[i].stability > 30}
      survivingNations == {i \in 1..Len(ws.countries) : ws.countries[i].stability > 20}
  IN  IF Cardinality(powerfulNations) = 1 /\ Len(ws.countries) > 1
      THEN [terminate |-> TRUE, reason |-> "HEGEMONY"]
      ELSE IF ws.year >= maxYears
      THEN [terminate |-> TRUE, reason |-> "TIME_LIMIT"]
      ELSE IF Cardinality(survivingNations) = 0
      THEN [terminate |-> TRUE, reason |-> "TOTAL_COLLAPSE"]
      ELSE [terminate |-> FALSE, reason |-> "NONE"]

\* the hegemony granted to the only country of a world
shouldTerminate_loneHegemon(ws, maxYears) ==
  LET powerfulNations == {i \in 1..Len(ws.countries) :
                            ws.countries[i].power > 50 /\ ws.countries[i].stability > 30}
      survivingNations == {i \in 1..Len(ws.countries) : ws.countries[i].stability > 20}
  IN  IF ws.year >= maxYears
      THEN [terminate |-> TRUE, reason |-> "TIME_LIMIT"]
      ELSE IF Cardinality(powerfulNations) = 1
      THEN [terminate |-> TRUE, reason |-> "HEGEMONY"]
      ELSE IF Cardinality(survivingNations) = 0
      THEN [terminate |-> TRUE, reason |-> "TOTAL_COLLAPSE"]
      ELSE [terminate |-> FALSE, reason |-> "NONE"]

shouldTerminate(ws, maxYears) ==
  LET powerfulNations == {i \in 1..Len(ws.countries) :
                            ws.countries[i].power > 50 /\ ws.countries[i].stability > 30}
      survivingNations == {i \in 1..Len(ws.countries) : ws.countries[i].stability > 20}
      recentStability == RecentStability(ws)
  IN  IF ws.year >= maxYears
      THEN [terminate |-> TRUE, reason |-> "TIME_LIMIT"]
      ELSE IF Cardinality(powerfulNations) = 1 /\ Len(ws.countries) > 1
      THEN [terminate |-> TRUE, reason |-> "HEGEMONY"]
      ELSE IF Cardinality(survivingNations) = 0
      THEN [terminate |-> TRUE, reason |-> "TOTAL_COLLAPSE"]
      ELSE IF /\ Len(recentStability) >= 20
              /\ \A j \in 1..Len(recentStability) :
                    StabilityIndexOf(recentStability[j]) >= 95
      THEN [terminate |-> TRUE, reason |-> "PERFECT_ORDER"]
      ELSE [terminate |-> FALSE, reason |-> "NONE"]

(***************************************************************************)
(* The run: the persisted document, the WorldSimulator and the command     *)
(* surface of the server.                                                  *)
(***************************************************************************)
NoTimer == 0
ByTimer == 0

TickSlots == 1..MaxInFlight
StartSlots == 1..MaxStarts

(***************************************************************************)
(* metrics.js: generateRandomEvent.  The three draws of Math.random are    *)
(* inputs: whether the tick has an event at all, the class chosen, and the *)
(* position picked in the pool of the class.                               *)
(***************************************************************************)
EventClasses ==
  <<"NATURAL_DISASTER", "TECHNOLOGICAL_BREAKTHROUGH", "POPULAR_UPRISING",
    "RESOURCE_DISCOVERY">>

\* the return value null, and a TypeError thrown inside the function
NoEvent == [type |-> "null"]
EventThrown == [type |-> "throws"]

Disaster == [x \in {"stability", "resources", "power"} |->
               CASE x = "stability" -> 0 - 15
                 [] x = "resources" -> 0 - 20
                 [] OTHER -> 0 - 10]

Breakthrough == [x \in {"technology", "power"} |->
                   IF x = "technology" THEN 15 ELSE 10]

Uprising == [x \in {"stability", "power"} |->
               IF x = "stability" THEN 0 - 25 ELSE 0 - 15]

Discovery == [x \in {"resources", "power"} |->
                IF x = "resources" THEN 20 ELSE 5]

\* the pool of an uprising without its filter on stability
unstableCountries_all(ws) == ws.countries

\* worldState.countries.filter(c => c.stability < 60)
unstableCountries(ws) == SelectSeq(ws.countries, LAMBDA c : c.stability < 60)

\* the event object of a class for the country picked, with tick and year
RandomEvent(type, country, deltas, ws, tick) ==
  [type |-> type, actors |-> <<country.id>>,
   impact |-> [k \in {country.id} |-> deltas],
   tick |-> tick, year |-> ws.year]

\* the values generateRandomEvent can return for the first two draws, one
\* for each position Math.floor(Math.random() * pool.length) can pick; an
\* empty countries array makes the pick undefined and victim.id throw
generateRandomEvent(ws, tick, fires, chosen) ==
  IF ~fires THEN {NoEvent}
  ELSE IF chosen = "POPULAR_UPRISING"
  THEN IF Len(unstableCountries(ws)) = 0 THEN {NoEvent}
       ELSE {RandomEvent("REBELLION", unstableCountries(ws)[i], Uprising,
                         ws, tick) :
               i \in 1..Len(unstableCountries(ws))}
  ELSE IF Len(ws.countries) = 0 THEN {EventThrown}
  ELSE {RandomEvent(CASE chosen = "NATURAL_DISASTER" -> "NATURAL_DISASTER"
                      [] chosen = "TECHNOLOGICAL_BREAKTHROUGH" -> "INNOVATION"
                      [] OTHER -> "RESOURCE_DISCOVERY",
                    ws.countries[i],
                    CASE chosen = "NATURAL_DISASTER" -> Disaster
                      [] chosen = "TECHNOLOGICAL_BREAKTHROUGH" -> Breakthrough
                      [] OTHER -> Discovery,
                    ws, tick) :
          i \in 1..Len(ws.countries)}

\* phase 1 of executeTick for a returned value: the event is appended and
\* its impact applied
RandomEventPhase(ws, randomEvent) ==
  IF randomEvent = NoEvent THEN ws
  ELSE applyChanges(addEvent(ws, randomEvent), randomEvent.impact)

\* the metrics inserted by the create route
InitialMetrics ==
  [stabilityIndex |-> 50, explanation |-> "Initial state",
   ideologicalDiversity |-> 100, conflictLevel |-> 35, survivalRate |-> 100]

\* the document inserted by the create route; error = FALSE stands for a
\* document without an error field
InitialDoc ==
  [tick |-> 0, year |-> 0, status |-> "RUNNING", globalEvents |-> <<>>,
   metrics |-> InitialMetrics, error |-> FALSE,
   countries |-> <<Country("c1", 50, 50, 0, 100, 0),
                   Country("c2", 50, 50, 100, 0, BigDelta \div 2)>>]

FreeTick == [pc |-> "free", ws |-> InitialDoc, by |-> ByTimer]

\* WorldState.load: the document as it is now
load == db

\* WorldState.save: $set of every field of the in-memory state; a document
\* field the state does not carry (error) is left as it is
save(doc, ws) == [ws EXCEPT !.error = ws.error \/ doc.error]

\* { ...calculatedMetrics, ...overseerInsights }: the overseer wins
MergeMetrics_overseerFirst(overseerInsights, calculatedMetrics) ==
  [k \in (DOMAIN overseerInsights) \cup (DOMAIN calculatedMetrics) |->
     IF k \in DOMAIN overseerInsights THEN overseerInsights[k]
     ELSE calculatedMetrics[k]]

\* { ...overseerInsights, ...calculatedMetrics }
MergeMetrics(overseerInsights, calculatedMetrics) ==
  [k \in (DOMAIN overseerInsights) \cup (DOMAIN calculatedMetrics) |->
     IF k \in DOMAIN calculatedMetrics THEN calculatedMetrics[k]
     ELSE overseerInsights[k]]

\* AgentManager.getOverseerAnalysis: the analysis of the capability, or the
\* fixed record when the overseer is missing or its call fails
OverseerFallback ==
  [stabilityIndex |-> 50, explanation |-> "Overseer analysis failed",
   emergingPatterns |-> <<>>, predictions |-> <<>>, hiddenCosts |-> "Unknown"]

OverseerAnalysis ==
  [stabilityIndex |-> 80, explanation |-> "analysis",
   emergingPatterns |-> <<>>, predictions |-> <<>>, hiddenCosts |-> "costs"]

\* the outcomes of the overseer analysis drawn in the run
OverseerAnalyses == {OverseerAnalysis}

\* what EventResolver.resolveActions hands back for a tick: the events, the
\* summed stat deltas and the tension deltas (in iteration order)
ResolutionEvent(type, id) ==
  [type |-> type, actors |-> <<id>>, tick |-> 0, year |-> 0, success |-> TRUE]

ResolutionResults ==
  {[events |-> <<>>, changes |-> EmptyMap, tensionChanges |-> <<>>],
   [events |-> <<ResolutionEvent("INNOVATION", "c2")>>,
    changes |-> [k \in {"c2"} |-> [x \in {"resources"} |-> BigDelta \div 2]],
    tensionChanges |-> <<>>],
   [events |-> <<ResolutionEvent("INTERNAL_REFORM", "c1")>>,
    changes |-> [k \in {"c1"} |-> [x \in {"power"} |-> BigDelta \div 2]],
    tensionChanges |-> <<>>]}

\* the metrics computed on the state before the deltas are applied
ApplyResolution_metricsFirst(ws, resolutionResult, overseerInsights) ==
  LET ws1 == applyChanges(ws, resolutionResult.changes)
      ws2 == applyTensionChanges(ws1, resolutionResult.tensionChanges)
      ws3 == addEvents(ws2, resolutionResult.events)
  IN  [ws3 EXCEPT !.metrics =
         MergeMetrics(overseerInsights, calculateStabilityIndex(ws))]

\* phases 4 and 5 of executeTick on the in-memory state
ApplyResolution(ws, resolutionResult, overseerInsights) ==
  LET ws1 == applyChanges(ws, resolutionResult.changes)
      ws2 == applyTensionChanges(ws1, resolutionResult.tensionChanges)
      ws3 == addEvents(ws2, resolutionResult.events)
  IN  [ws3 EXCEPT !.metrics =
         MergeMetrics(overseerInsights, calculateStabilityIndex(ws3))]

\* WorldSimulator.pause: the timer recorded in tickInterval is cleared
PauseTimers == timers \ {tickInterval}

Pause ==
  /\ timers' = PauseTimers
  /\ tickInterval' = NoTimer
  /\ isRunning' = FALSE
  /\ pausedSince' = TRUE

\* the number of executeTick invocations in flight
InFlight(tk) == Cardinality({t \in TickSlots : tk[t].pc # "free"})

\* the continuation of start() after its await runs before any other
\* handler of the event loop: a handler takes its turn only when no start()
\* is about to continue
ArmPending == \E s \in StartSlots : starts[s] = "arm"

Turn == ~ArmPending

\* a slot of starts that no call and no armed timer uses
StartSlotFree(s) == starts[s] = "idle" /\ s \notin timers /\ tickInterval # s

LowestFreeTick == CHOOSE t \in TickSlots :
                    /\ ticks[t].pc = "free"
                    /\ \A u \in TickSlots : ticks[u].pc = "free" => t <= u

\* executeTick returns to its caller: the slot is freed and, when the
\* caller is start(), start() continues after its await
Return(t, how) ==
  /\ ticks' = [ticks EXCEPT ![t] = FreeTick]
  /\ lastFinish' = how
  /\ starts' = IF ticks[t].by = ByTimer THEN starts
               ELSE [starts EXCEPT ![ticks[t].by] = "arm"]

\* executeTick without its try/catch: the error leaves executeTick and the
\* promise handed to the caller rejects
Throw_escapes(t) ==
  /\ ticks' = [ticks EXCEPT ![t] = FreeTick]
  /\ lastFinish' = "rejected"
  /\ UNCHANGED <<call, batch, worldState, db, isRunning, tickInterval, timers, starts,
                 pauseCmd, autoStop, pausedSince>>

\* an error is thrown inside the try block: control goes to the catch
\* block, which issues the write of status FAILED
Throw(t) ==
  /\ ticks' = [ticks EXCEPT ![t].pc = "catch"]
  /\ UNCHANGED <<call, batch, worldState, db, isRunning, tickInterval, timers, starts,
                 pauseCmd, autoStop, pausedSince, lastFinish>>

(***************************************************************************)
(* WorldSimulator.start.  The create route calls it once (slot 1, already  *)
(* past its isRunning check in the initial state); the resume route calls  *)
(* it after its write of status RUNNING.                                   *)
(***************************************************************************)
\* initialize() has completed: isRunning is set and the first executeTick
\* runs up to its load
StartInit(s, width) ==
  /\ Turn
  /\ starts[s] = "init"
  /\ InFlight(ticks) < width
  /\ isRunning' = TRUE
  /\ ticks' = [ticks EXCEPT ![LowestFreeTick] =
                 [pc |-> "load", ws |-> InitialDoc, by |-> s]]
  /\ starts' = [starts EXCEPT ![s] = "firstTick"]
  /\ UNCHANGED <<call, batch, worldState, db, tickInterval, timers, pauseCmd, autoStop,
                 pausedSince, lastFinish>>

\* initialize() throws (no agent configuration): start() rejects and the
\* route answers with an error; the create route then arms no auto-stop
StartInitFail(s) ==
  /\ Turn
  /\ starts[s] = "init"
  /\ starts' = [starts EXCEPT ![s] = "idle"]
  /\ autoStop' = IF s = 1 /\ autoStop.pc = "unset"
                 THEN [autoStop EXCEPT !.pc = "never"] ELSE autoStop
  /\ UNCHANGED <<call, batch, worldState, db, isRunning, tickInterval, timers, ticks,
                 pauseCmd, pausedSince, lastFinish>>

\* the first executeTick has returned: setInterval arms the periodic timer
\* and records it in tickInterval; the create route then sets its auto-stop
StartArm(s) ==
  /\ starts[s] = "arm"
  /\ tickInterval' = s
  /\ timers' = timers \cup {s}
  /\ starts' = [starts EXCEPT ![s] = "idle"]
  /\ autoStop' = IF s = 1 /\ autoStop.pc = "unset"
                 THEN [autoStop EXCEPT !.pc = "armed"] ELSE autoStop
  /\ UNCHANGED <<call, batch, worldState, db, isRunning, ticks, pauseCmd, pausedSince,
                 lastFinish>>

\* an armed interval timer fires: its callback calls executeTick, which
\* runs up to its load
TimerFire(id, width) ==
  /\ Turn
  /\ id \in timers
  /\ InFlight(ticks) < width
  /\ ticks' = [ticks EXCEPT ![LowestFreeTick] =
                 [pc |-> "load", ws |-> InitialDoc, by |-> ByTimer]]
  /\ UNCHANGED <<call, batch, worldState, db, isRunning, tickInterval, timers, starts,
                 pauseCmd, autoStop, pausedSince, lastFinish>>

(***************************************************************************)
(* WorldSimulator.executeTick, one action per await.                       *)
(***************************************************************************)
MaxYears == 1000

\* the load returns a RUNNING state: phase 1 draws no random event and the
\* decision collection is awaited
TickLoad(t) ==
  /\ Turn
  /\ ticks[t].pc = "load"
  /\ load.status = "RUNNING"
  /\ load.tick < MaxTick
  /\ ticks' = [ticks EXCEPT ![t].pc = "phases", ![t].ws = load]
  /\ UNCHANGED <<call, batch, worldState, db, isRunning, tickInterval, timers, starts,
                 pauseCmd, autoStop, pausedSince, lastFinish>>

\* the status check returning without its call of pause()
TickSkip_noPause(t) ==
  /\ Turn
  /\ ticks[t].pc = "load"
  /\ load.status # "RUNNING"
  /\ Return(t, "skipped")
  /\ UNCHANGED <<call, batch, worldState, db, isRunning, tickInterval, timers, pauseCmd,
                 autoStop, pausedSince>>

\* the load returns a state that is not RUNNING: pause() and return
TickSkip(t) ==
  /\ Turn
  /\ ticks[t].pc = "load"
  /\ load.status # "RUNNING"
  /\ Pause
  /\ Return(t, "skipped")
  /\ UNCHANGED <<call, batch, worldState, db, pauseCmd, autoStop>>

TickLoadFail(t) ==
  /\ Turn
  /\ ticks[t].pc = "load"
  /\ Throw(t)

\* phases 2 to 7: decisions, resolution, application, overseer analysis and
\* metrics, commentary; then the first save is issued
TickPhases(t, resolutionResult, overseerInsights) ==
  /\ Turn
  /\ ticks[t].pc = "phases"
  /\ Len(ticks[t].ws.globalEvents) + Len(resolutionResult.events) <= MaxEvents
  /\ ticks' = [ticks EXCEPT
                 ![t].pc = "save1",
                 ![t].ws = ApplyResolution(ticks[t].ws, resolutionResult,
                                           overseerInsights)]
  /\ UNCHANGED <<call, batch, worldState, db, isRunning, tickInterval, timers, starts,
                 pauseCmd, autoStop, pausedSince, lastFinish>>

TickPhasesFail(t) ==
  /\ Turn
  /\ ticks[t].pc = "phases"
  /\ Throw(t)

\* phase 8: the save takes effect; logTick is awaited
TickSave1(t) ==
  /\ Turn
  /\ ticks[t].pc = "save1"
  /\ db' = save(db, ticks[t].ws)
  /\ ticks' = [ticks EXCEPT ![t].pc = "log"]
  /\ UNCHANGED <<call, batch, worldState, isRunning, tickInterval, timers, starts,
                 pauseCmd, autoStop, pausedSince, lastFinish>>

TickSave1Fail(t) ==
  /\ Turn
  /\ ticks[t].pc = "save1"
  /\ Throw(t)

\* a logTick that also appends its summary to globalEvents
TickLog_appendsSummary(t) ==
  /\ Turn
  /\ ticks[t].pc = "log"
  /\ ticks' = [ticks EXCEPT
                 ![t].pc = "save2",
                 ![t].ws.globalEvents =
                    Append(@, [type |-> "TICK_SUMMARY",
                               stabilityIndex |-> ticks[t].ws.metrics.stabilityIndex,
                               tick |-> ticks[t].ws.tick,
                               year |-> ticks[t].ws.year]),
                 ![t].ws.tick = @ + 1,
                 ![t].ws.year = @ + 1]
  /\ UNCHANGED <<call, batch, worldState, db, isRunning, tickInterval, timers, starts,
                 pauseCmd, autoStop, pausedSince, lastFinish>>

\* logTick has returned (it swallows its own failure); phase 9 advances the
\* counters and issues the second save
TickLog(t) ==
  /\ Turn
  /\ ticks[t].pc = "log"
  /\ ticks' = [ticks EXCEPT ![t].pc = "save2",
                            ![t].ws.tick = @ + 1,
                            ![t].ws.year = @ + 1]
  /\ UNCHANGED <<call, batch, worldState, db, isRunning, tickInterval, timers, starts,
                 pauseCmd, autoStop, pausedSince, lastFinish>>

\* the second save takes effect and the termination check is negative
TickSave2(t) ==
  /\ Turn
  /\ ticks[t].pc = "save2"
  /\ ~shouldTerminate(ticks[t].ws, MaxYears).terminate
  /\ db' = save(db, ticks[t].ws)
  /\ Return(t, "completed")
  /\ UNCHANGED <<call, batch, worldState, isRunning, tickInterval, timers, pauseCmd,
                 autoStop, pausedSince>>

\* the second save takes effect and the termination check is positive:
\* complete(reason) pauses and issues its load
TickTerminate(t) ==
  /\ Turn
  /\ ticks[t].pc = "save2"
  /\ shouldTerminate(ticks[t].ws, MaxYears).terminate
  /\ db' = save(db, ticks[t].ws)
  /\ Pause
  /\ ticks' = [ticks EXCEPT ![t].pc = "cLoad"]
  /\ UNCHANGED <<call, batch, worldState, starts, pauseCmd, autoStop, lastFinish>>

TickSave2Fail(t) ==
  /\ Turn
  /\ ticks[t].pc = "save2"
  /\ Throw(t)

\* complete(reason): the reload returns; status is set and the save issued
CompleteLoad(t) ==
  /\ Turn
  /\ ticks[t].pc = "cLoad"
  /\ ticks' = [ticks EXCEPT ![t].pc = "cSave",
                            ![t].ws = [load EXCEPT !.status = "COMPLETED"]]
  /\ UNCHANGED <<call, batch, worldState, db, isRunning, tickInterval, timers, starts,
                 pauseCmd, autoStop, pausedSince, lastFinish>>

\* complete(reason): the save takes effect; logSimulationEnd is awaited
CompleteSave(t) ==
  /\ Turn
  /\ ticks[t].pc = "cSave"
  /\ db' = save(db, ticks[t].ws)
  /\ ticks' = [ticks EXCEPT ![t].pc = "cLog"]
  /\ UNCHANGED <<call, batch, worldState, isRunning, tickInterval, timers, starts,
                 pauseCmd, autoStop, pausedSince, lastFinish>>

\* the load or the save of complete(reason) throws inside executeTick
CompleteFail(t) ==
  /\ Turn
  /\ ticks[t].pc \in {"cLoad", "cSave"}
  /\ Throw(t)

\* logSimulationEnd has returned: complete returns, executeTick returns
CompleteLog(t) ==
  /\ Turn
  /\ ticks[t].pc = "cLog"
  /\ Return(t, "terminated")
  /\ UNCHANGED <<call, batch, worldState, db, isRunning, tickInterval, timers, pauseCmd,
                 autoStop, pausedSince>>

\* a catch block that saves the in-memory state of the tick with status
\* FAILED
TickCatch_savesState(t, writeOk) ==
  /\ Turn
  /\ ticks[t].pc = "catch"
  /\ db' = IF writeOk
           THEN [save(db, ticks[t].ws) EXCEPT !.status = "FAILED",
                                              !.error = TRUE]
           ELSE db
  /\ Pause
  /\ Return(t, "failed")
  /\ UNCHANGED <<call, batch, worldState, pauseCmd, autoStop>>

\* the catch block: the write of status FAILED takes effect, or fails and
\* is swallowed; then pause() and executeTick returns normally
TickCatch(t, writeOk) ==
  /\ Turn
  /\ ticks[t].pc = "catch"
  /\ db' = IF writeOk THEN [db EXCEPT !.status = "FAILED", !.error = TRUE]
           ELSE db
  /\ Pause
  /\ Return(t, "failed")
  /\ UNCHANGED <<call, batch, worldState, pauseCmd, autoStop>>

(***************************************************************************)
(* The command surface: the pause and resume routes and the auto-stop      *)
(* timer of the create route.                                              *)
(***************************************************************************)
\* a pause() that drops the ticks in flight
PauseCmd_abortsTicks ==
  /\ Turn
  /\ pauseCmd = "idle"
  /\ Pause
  /\ pauseCmd' = "write"
  /\ ticks' = [t \in TickSlots |-> FreeTick]
  /\ UNCHANGED <<call, batch, worldState, db, starts, autoStop, lastFinish>>

\* POST pause: simulator.pause(), then the write of status PAUSED is issued
PauseCmd ==
  /\ Turn
  /\ pauseCmd = "idle"
  /\ Pause
  /\ pauseCmd' = "write"
  /\ UNCHANGED <<call, batch, worldState, db, ticks, starts, autoStop, lastFinish>>

PauseCmdWrite ==
  /\ Turn
  /\ pauseCmd = "write"
  /\ db' = [db EXCEPT !.status = "PAUSED"]
  /\ pauseCmd' = "idle"
  /\ UNCHANGED <<call, batch, worldState, isRunning, tickInterval, timers, ticks, starts,
                 autoStop, pausedSince, lastFinish>>

\* POST resume: the write of status RUNNING is issued
ResumeCmd(s) ==
  /\ Turn
  /\ StartSlotFree(s)
  /\ \A u \in StartSlots : StartSlotFree(u) => s <= u
  /\ starts' = [starts EXCEPT ![s] = "write"]
  /\ UNCHANGED <<call, batch, worldState, db, isRunning, tickInterval, timers, ticks,
                 pauseCmd, autoStop, pausedSince, lastFinish>>

\* start() without its look at isRunning
ResumeWrite_noCheck(s) ==
  /\ Turn
  /\ starts[s] = "write"
  /\ db' = [db EXCEPT !.status = "RUNNING"]
  /\ starts' = [starts EXCEPT ![s] = "init"]
  /\ pausedSince' = FALSE
  /\ UNCHANGED <<call, batch, worldState, isRunning, tickInterval, timers, ticks,
                 pauseCmd, autoStop, lastFinish>>

\* the write takes effect and simulator.start() is called: it returns at
\* once when isRunning, else it awaits initialize()
ResumeWrite(s) ==
  /\ Turn
  /\ starts[s] = "write"
  /\ db' = [db EXCEPT !.status = "RUNNING"]
  /\ starts' = [starts EXCEPT ![s] = IF isRunning THEN "idle" ELSE "init"]
  /\ pausedSince' = FALSE
  /\ UNCHANGED <<call, batch, worldState, isRunning, tickInterval, timers, ticks,
                 pauseCmd, autoStop, lastFinish>>

\* the auto-stop timer fires: complete('DURATION_LIMIT') pauses and issues
\* its load
AutoStopFire ==
  /\ Turn
  /\ autoStop.pc = "armed"
  /\ Pause
  /\ autoStop' = [autoStop EXCEPT !.pc = "cLoad"]
  /\ UNCHANGED <<call, batch, worldState, db, ticks, starts, pauseCmd, lastFinish>>

AutoStopLoad ==
  /\ Turn
  /\ autoStop.pc = "cLoad"
  /\ autoStop' = [pc |-> "cSave", ws |-> [load EXCEPT !.status = "COMPLETED"]]
  /\ UNCHANGED <<call, batch, worldState, db, isRunning, tickInterval, timers, ticks,
                 starts, pauseCmd, pausedSince, lastFinish>>

AutoStopSave ==
  /\ Turn
  /\ autoStop.pc = "cSave"
  /\ db' = save(db, autoStop.ws)
  /\ autoStop' = [pc |-> "done", ws |-> InitialDoc]
  /\ UNCHANGED <<call, batch, worldState, isRunning, tickInterval, timers, ticks, starts,
                 pauseCmd, pausedSince, lastFinish>>

\* the load or the save of the auto-stop's complete throws: the callback
\* ends there
AutoStopFail ==
  /\ Turn
  /\ autoStop.pc \in {"cLoad", "cSave"}
  /\ autoStop' = [pc |-> "done", ws |-> InitialDoc]
  /\ UNCHANGED <<call, batch, worldState, db, isRunning, tickInterval, timers, ticks,
                 starts, pauseCmd, pausedSince, lastFinish>>

(***************************************************************************)
(* The decision batch of a tick: AgentManager.collectDecisions followed by *)
(* EventResolver.resolveActions, with the capability calls they await.     *)
(***************************************************************************)
\* the agents of the run, in the iteration order of the clients map
AgentConfigs ==
  <<[id |-> "a1", role |-> "LEADER", countryId |-> "c1"],
    [id |-> "a2", role |-> "LEADER", countryId |-> "c2"],
    [id |-> "a3", role |-> "OVERSEER", countryId |-> NoId],
    [id |-> "a4", role |-> "LEADER", countryId |-> AbsentId]>>

\* what the capability answers to a leader prompt
Payloads ==
  {[action |-> "INTERNAL", specificAction |-> "stabilize", target |-> NoId],
   [action |-> "MILITARY", specificAction |-> "declare_war", target |-> "c1"],
   [action |-> "DIPLOMACY", specificAction |-> "form_alliance",
    target |-> "c2"]}

\* what the capability answers to a resolution prompt; badChanges stands
\* for a changes object with a null entry
Resolutions ==
  {[success |-> TRUE, successLevel |-> "SUCCESS",
    changes |-> [k \in {"c1"} |-> [x \in {"power"} |-> BigDelta \div 2]],
    newTensions |-> [k \in {"c2"} |-> 20], badChanges |-> FALSE],
   [success |-> FALSE, successLevel |-> "PARTIAL",
    changes |-> [k \in {"c1", "c2"} |->
                   [x \in {"stability", "power"} |->
                      IF x = "power" THEN 0 - BigDelta ELSE 0 - 5]],
    newTensions |-> EmptyMap, badChanges |-> FALSE],
   [success |-> TRUE, successLevel |-> "SUCCESS",
    changes |-> EmptyMap, newTensions |-> EmptyMap, badChanges |-> TRUE]}

NoError == "none"
NoValue == EmptyMap

\* GeminiClient.call: the parsed answer, or an error object
CallOk(value) == [error |-> NoError, shouldRetry |-> FALSE, value |-> value]
RateLimited == [error |-> "RATE_LIMIT", shouldRetry |-> TRUE, value |-> NoValue]
CallError == [error |-> "API_ERROR", shouldRetry |-> FALSE, value |-> NoValue]

MaxRetries == 3

\* the answers of the successive calls of one callWithRetry
Responses(values) ==
  [1..MaxRetries -> {CallOk(v) : v \in values} \cup {RateLimited, CallError}]

\* GeminiClient.callWithRetry: the first answer without error is returned;
\* an error that is not to be retried, or the last retry, throws
RECURSIVE callWithRetryFrom(_, _)
callWithRetryFrom(results, i) ==
  IF i > MaxRetries THEN [thrown |-> TRUE, result |-> CallError]
  ELSE IF results[i].error = NoError
       THEN [thrown |-> FALSE, result |-> results[i]]
       ELSE IF ~results[i].shouldRetry
            THEN [thrown |-> TRUE, result |-> results[i]]
            ELSE callWithRetryFrom(results, i + 1)

callWithRetry(results) == callWithRetryFrom(results, 1)

\* the decision pushed when the returned decision carries an error
FallbackDecision(config) ==
  [agentId |-> config.id, actorId |-> config.countryId,
   action |-> "INTERNAL", specificAction |-> "stabilize", target |-> NoId,
   reasoning |-> "AI agent unavailable, default action"]

\* the decision pushed otherwise: the answer with the ids of the agent
MakeDecision(config, value) ==
  [agentId |-> config.id, actorId |-> config.countryId,
   action |-> value.action, specificAction |-> value.specificAction,
   target |-> value.target, reasoning |-> "capability"]

\* a country skipped as soon as one of the two stats is below 10
Collapsed_either(country) == country.stability < 10 \/ country.power < 10

\* the test of collectDecisions for a collapsed country
Collapsed(country) == country.stability < 10 /\ country.power < 10

BatchStart ==
  [pc |-> "collect", i |-> 1, decisions |-> <<>>, failed |-> {},
   sorted |-> <<>>, j |-> 1, events |-> <<>>, changes |-> EmptyMap,
   tensionChanges |-> EmptyMap, capFailed |-> {}, skipped |-> {},
   merged |-> <<>>]

\* one iteration of the loop of collectDecisions that makes no call: the
\* agent is no leader, its country is not in the state, or it has collapsed
CollectSkip ==
  /\ batch.pc = "collect"
  /\ batch.i <= Len(AgentConfigs)
  /\ LET config == AgentConfigs[batch.i]
         at == FindCountry(worldState.countries, config.countryId)
     IN  \/ config.role # "LEADER"
         \/ at = 0
         \/ (at # 0 /\ Collapsed(worldState.countries[at]))
  /\ batch' = [batch EXCEPT !.i = @ + 1]
  /\ UNCHANGED <<worldState, simVars, call>>

\* one iteration that awaits callWithRetry: a returned decision is pushed
\* (the fallback when it carries an error); a throw is caught and logged
CollectCall(results) ==
  /\ batch.pc = "collect"
  /\ batch.i <= Len(AgentConfigs)
  /\ LET config == AgentConfigs[batch.i]
         at == FindCountry(worldState.countries, config.countryId)
         decision == callWithRetry(results)
     IN  /\ config.role = "LEADER"
         /\ at # 0
         /\ ~Collapsed(worldState.countries[at])
         /\ batch' =
              IF decision.thrown
              THEN [batch EXCEPT !.i = @ + 1, !.failed = @ \cup {config.id}]
              ELSE IF decision.result.error # NoError
              THEN [batch EXCEPT
                      !.i = @ + 1,
                      !.failed = @ \cup {config.id},
                      !.decisions = Append(@, FallbackDecision(config))]
              ELSE [batch EXCEPT
                      !.i = @ + 1,
                      !.decisions =
                         Append(@, MakeDecision(config, decision.result.value))]
  /\ UNCHANGED <<worldState, simVars, call>>

\* EventResolver.prioritizeActions: a stable sort by the priority of action
Priority(action) ==
  CASE action = "MILITARY" -> 1
    [] action = "DIPLOMACY" -> 2
    [] action = "ESPIONAGE" -> 3
    [] action = "INTERNAL" -> 4
    [] OTHER -> 99

WithPriority(decisions, p) ==
  SelectSeq(decisions, LAMBDA d : Priority(d.action) = p)

\* the INTERNAL decisions put before the ESPIONAGE ones
prioritizeActions_internalFirst(decisions) ==
  WithPriority(decisions, 1) \o WithPriority(decisions, 2)
    \o WithPriority(decisions, 4) \o WithPriority(decisions, 3)
    \o WithPriority(decisions, 99)

prioritizeActions(decisions) ==
  WithPriority(decisions, 1) \o WithPriority(decisions, 2)
    \o WithPriority(decisions, 3) \o WithPriority(decisions, 4)
    \o WithPriority(decisions, 99)

\* collectDecisions returns and resolveActions sorts the decisions
ResolveBegin ==
  /\ batch.pc = "collect"
  /\ batch.i > Len(AgentConfigs)
  /\ batch' = [batch EXCEPT !.pc = "config",
                            !.sorted = prioritizeActions(batch.decisions),
                            !.j = 1]
  /\ UNCHANGED <<worldState, simVars, call>>

mapActionToEventType(action, specificAction) ==
  CASE specificAction = "declare_war" -> "WAR"
    [] specificAction = "ceasefire" -> "PEACE"
    [] specificAction = "form_alliance" -> "ALLIANCE"
    [] specificAction = "break_alliance" -> "ALLIANCE_BROKEN"
    [] specificAction = "invest_technology" -> "INNOVATION"
    [] specificAction = "stabilize" -> "INTERNAL_REFORM"
    [] specificAction = "reform_policy" -> "REFORM"
    [] specificAction = "sabotage" -> "ESPIONAGE"
    [] specificAction = "steal_technology" -> "ESPIONAGE"
    [] specificAction = "gather_intel" -> "INTELLIGENCE"
    [] OTHER -> action

\* the event pushed by the catch block of the loop of resolveActions
FailedAction(decision) ==
  [type |-> "FAILED_ACTION", actors |-> <<decision.actorId>>,
   impact |-> EmptyMap, success |-> FALSE]

\* the result AgentManager.resolveAction returns when its call fails
SafeDefault ==
  [success |-> FALSE, successLevel |-> "FAILURE", changes |-> EmptyMap,
   newTensions |-> EmptyMap, badChanges |-> FALSE]

\* AgentManager.resolveAction: the answer of the capability, or the safe
\* default when callWithRetry throws or the answer carries an error
resolveAction(results) ==
  LET result == callWithRetry(results)
  IN  IF result.thrown \/ result.result.error # NoError THEN SafeDefault
      ELSE result.result.value

\* the event built from a resolution
ResolvedEvent(decision, resolution) ==
  [type |-> mapActionToEventType(decision.action,
                                               decision.specificAction),
   actors |-> IF decision.target = NoId THEN <<decision.actorId>>
              ELSE <<decision.actorId, decision.target>>,
   impact |-> resolution.changes,
   success |-> resolution.success,
   successLevel |-> resolution.successLevel]

\* the value of the last resolution kept instead of the sum
MergeStats_overwrite(have, more) ==
  [x \in (DOMAIN have) \cup (DOMAIN more) |->
     IF x \in DOMAIN more THEN more[x] ELSE have[x]]

\* allChanges[countryId][stat] = (allChanges[countryId][stat] || 0) + value
MergeStats(have, more) ==
  [x \in (DOMAIN have) \cup (DOMAIN more) |->
     (IF x \in DOMAIN have THEN have[x] ELSE 0)
       + (IF x \in DOMAIN more THEN more[x] ELSE 0)]

MergeChanges(allChanges, changes) ==
  [k \in (DOMAIN allChanges) \cup (DOMAIN changes) |->
     IF k \in DOMAIN changes
     THEN MergeStats(IF k \in DOMAIN allChanges THEN allChanges[k]
                     ELSE EmptyMap, changes[k])
     ELSE allChanges[k]]

\* the tension value added to the one an earlier decision of the actor gave
MergeTensions_summed(allTensionChanges, actorId, newTensions) ==
  IF DOMAIN newTensions = {} THEN allTensionChanges
  ELSE LET have == IF actorId \in DOMAIN allTensionChanges
                   THEN allTensionChanges[actorId] ELSE EmptyMap
       IN  [a \in (DOMAIN allTensionChanges) \cup {actorId} |->
              IF a = actorId
              THEN [k \in (DOMAIN have) \cup (DOMAIN newTensions) |->
                      (IF k \in DOMAIN have THEN have[k] ELSE 0)
                        + (IF k \in DOMAIN newTensions THEN newTensions[k]
                           ELSE 0)]
              ELSE allTensionChanges[a]]

\* allTensionChanges[decision.actorId][countryId] = tensionValue
MergeTensions(allTensionChanges, actorId, newTensions) ==
  IF DOMAIN newTensions = {} THEN allTensionChanges
  ELSE LET have == IF actorId \in DOMAIN allTensionChanges
                   THEN allTensionChanges[actorId] ELSE EmptyMap
       IN  [a \in (DOMAIN allTensionChanges) \cup {actorId} |->
              IF a = actorId
              THEN [k \in (DOMAIN have) \cup (DOMAIN newTensions) |->
                      IF k \in DOMAIN newTensions THEN newTensions[k]
                      ELSE have[k]]
              ELSE allTensionChanges[a]]

Includes(seq, x) == \E n \in 1..Len(seq) : seq[n] = x

\* the ally pushed without the look-up of includes
AddAlly_always(ws, id, ally) ==
  [ws EXCEPT !.countries =
     [n \in DOMAIN ws.countries |->
        IF ws.countries[n].id = id
        THEN [ws.countries[n] EXCEPT !.alliances = Append(@, ally)]
        ELSE ws.countries[n]]]

\* WorldState.updateAlliances on the in-memory state
AddAlly(ws, id, ally) ==
  [ws EXCEPT !.countries =
     [n \in DOMAIN ws.countries |->
        IF ws.countries[n].id = id /\ ~Includes(ws.countries[n].alliances, ally)
        THEN [ws.countries[n] EXCEPT !.alliances = Append(@, ally)]
        ELSE ws.countries[n]]]

DropAlly(ws, id, ally) ==
  [ws EXCEPT !.countries =
     [n \in DOMAIN ws.countries |->
        IF ws.countries[n].id = id
        THEN [ws.countries[n] EXCEPT
                !.alliances = SelectSeq(@, LAMBDA a : a # ally)]
        ELSE ws.countries[n]]]

\* FORM and BREAK that touch the list of the first country only
updateAlliances_oneSided(ws, country1Id, country2Id, action) ==
  IF FindCountry(ws.countries, country1Id) = 0
       \/ FindCountry(ws.countries, country2Id) = 0
  THEN ws
  ELSE IF action = "FORM"
       THEN AddAlly(ws, country1Id, country2Id)
       ELSE IF action = "BREAK"
            THEN DropAlly(ws, country1Id, country2Id)
            ELSE ws

updateAlliances(ws, country1Id, country2Id, action) ==
  IF FindCountry(ws.countries, country1Id) = 0
       \/ FindCountry(ws.countries, country2Id) = 0
  THEN ws
  ELSE IF action = "FORM"
       THEN AddAlly(AddAlly(ws, country1Id, country2Id),
                    country2Id, country1Id)
       ELSE IF action = "BREAK"
            THEN DropAlly(DropAlly(ws, country1Id, country2Id),
                          country2Id, country1Id)
            ELSE ws

\* the alliance broken only when the resolution reports success
handleSpecialActions_breakOnSuccess(ws, decision, resolution) ==
  IF decision.specificAction = "form_alliance" /\ resolution.success
  THEN updateAlliances(ws, decision.actorId, decision.target, "FORM")
  ELSE IF decision.specificAction = "break_alliance" /\ resolution.success
       THEN updateAlliances(ws, decision.actorId, decision.target, "BREAK")
       ELSE ws

\* EventResolver.handleSpecialActions: the alliances; a declaration of war
\* is only logged
handleSpecialActions(ws, decision, resolution) ==
  IF decision.specificAction = "form_alliance" /\ resolution.success
  THEN updateAlliances(ws, decision.actorId, decision.target, "FORM")
  ELSE IF decision.specificAction = "break_alliance"
       THEN updateAlliances(ws, decision.actorId, decision.target, "BREAK")
       ELSE ws

\* EventResolver.getActorConfig on a stored configuration: the first agent
\* of the country, 0 when there is none
FindAgent(actorId) ==
  IF \E n \in 1..Len(AgentConfigs) : AgentConfigs[n].countryId = actorId
  THEN CHOOSE n \in 1..Len(AgentConfigs) :
         /\ AgentConfigs[n].countryId = actorId
         /\ \A m \in 1..(n-1) : AgentConfigs[m].countryId # actorId
  ELSE 0

\* the outcomes of the query of getActorConfig
ConfigOutcomes == {"doc", "null", "throws"}

\* the loop of resolveActions up to the return of getActorConfig: no
\* configuration skips the decision, a throw goes to the catch block
ResolveConfig(outcome) ==
  /\ batch.pc = "config"
  /\ batch.j <= Len(batch.sorted)
  /\ LET decision == batch.sorted[batch.j]
     IN  batch' =
           IF outcome = "throws"
           THEN [batch EXCEPT !.j = @ + 1,
                              !.events = Append(@, FailedAction(decision))]
           ELSE IF outcome = "null" \/ FindAgent(decision.actorId) = 0
           THEN [batch EXCEPT !.j = @ + 1,
                              !.skipped = @ \cup {decision.actorId}]
           ELSE [batch EXCEPT !.pc = "resolution"]
  /\ UNCHANGED <<worldState, simVars, call>>

\* the iteration applying the changes and tensions of its resolution to the
\* state at once instead of leaving them to phase 4
ResolveResolution_appliesAtOnce(results) ==
  /\ batch.pc = "resolution"
  /\ LET decision == batch.sorted[batch.j]
         answer == callWithRetry(results)
         resolution == resolveAction(results)
         pushed == Append(batch.events, ResolvedEvent(decision, resolution))
         capFailed == IF answer.thrown
                      THEN batch.capFailed \cup {decision.actorId}
                      ELSE batch.capFailed
     IN  IF resolution.badChanges
         THEN /\ batch' = [batch EXCEPT
                             !.pc = "config", !.j = @ + 1,
                             !.capFailed = capFailed,
                             !.events = Append(pushed, FailedAction(decision))]
              /\ UNCHANGED worldState
         ELSE /\ batch' = [batch EXCEPT
                             !.pc = "config", !.j = @ + 1,
                             !.capFailed = capFailed,
                             !.events = pushed,
                             !.merged =
                                Append(@, [decision |-> decision,
                                           resolution |-> resolution]),
                             !.changes = MergeChanges(@, resolution.changes),
                             !.tensionChanges =
                                MergeTensions(@, decision.actorId,
                                              resolution.newTensions)]
              /\ worldState' =
                   applyChanges(handleSpecialActions(worldState, decision,
                                                     resolution),
                                resolution.changes)
  /\ UNCHANGED <<simVars, call>>

\* the rest of the iteration: resolveAction returns, the event is pushed,
\* the changes and tensions are merged and the special actions handled; a
\* changes object that cannot be merged throws after the push.  merged
\* keeps the decisions whose iteration ran to its end, with their resolution
ResolveResolution(results) ==
  /\ batch.pc = "resolution"
  /\ LET decision == batch.sorted[batch.j]
         answer == callWithRetry(results)
         resolution == resolveAction(results)
         pushed == Append(batch.events, ResolvedEvent(decision, resolution))
         capFailed == IF answer.thrown
                      THEN batch.capFailed \cup {decision.actorId}
                      ELSE batch.capFailed
     IN  IF resolution.badChanges
         THEN /\ batch' = [batch EXCEPT
                             !.pc = "config", !.j = @ + 1,
                             !.capFailed = capFailed,
                             !.events = Append(pushed, FailedAction(decision))]
              /\ UNCHANGED worldState
         ELSE /\ batch' = [batch EXCEPT
                             !.pc = "config", !.j = @ + 1,
                             !.capFailed = capFailed,
                             !.events = pushed,
                             !.merged =
                                Append(@, [decision |-> decision,
                                           resolution |-> resolution]),
                             !.changes = MergeChanges(@, resolution.changes),
                             !.tensionChanges =
                                MergeTensions(@, decision.actorId,
                                              resolution.newTensions)]
              /\ worldState' = handleSpecialActions(worldState, decision,
                                                    resolution)
  /\ UNCHANGED <<simVars, call>>

\* resolveActions returns events, changes and tensionChanges
ResolveReturn ==
  /\ batch.pc = "config"
  /\ batch.j > Len(batch.sorted)
  /\ batch' = [batch EXCEPT !.pc = "done"]
  /\ UNCHANGED <<worldState, simVars, call>>

\* the states collectDecisions is called with: both countries standing, or
\* the first one collapsed, or the first one with only its power or only
\* its stability below 10
BatchWorlds ==
  {InitialDoc,
   [InitialDoc EXCEPT !.countries[1] = Country("c1", 5, 5, 0, 100, 0)],
   [InitialDoc EXCEPT !.countries[1] = Country("c1", 9, 10, 0, 100, 0)],
   [InitialDoc EXCEPT !.countries[1] = Country("c1", 10, 9, 0, 100, 0)]}

BatchNext ==
  \/ CollectSkip
  \/ \E results \in Responses(Payloads) : CollectCall(results)
  \/ ResolveBegin
  \/ \E outcome \in ConfigOutcomes : ResolveConfig(outcome)
  \/ \E results \in Responses(Resolutions) : ResolveResolution(results)
  \/ ResolveReturn

(***************************************************************************)
(* The specification of the run.                                           *)
(***************************************************************************)
SimInit ==
  /\ db = InitialDoc
  /\ isRunning = FALSE
  /\ tickInterval = NoTimer
  /\ timers = {}
  /\ ticks = [t \in TickSlots |-> FreeTick]
  /\ starts = [s \in StartSlots |-> IF s = 1 THEN "init" ELSE "idle"]
  /\ pauseCmd = "idle"
  /\ autoStop = [pc |-> "unset", ws |-> InitialDoc]
  /\ pausedSince = FALSE
  /\ lastFinish = "none"
  /\ batch = BatchStart
  /\ call = NoCall

\* the steps of the simulator with at most width ticks in flight
\* the steps of the executeTick invocation in slot t
TickStep(t) ==
  \/ TickLoad(t)
  \/ TickSkip(t)
  \/ TickLoadFail(t)
  \/ \E r \in ResolutionResults : \E o \in OverseerAnalyses : TickPhases(t, r, o)
  \/ TickPhasesFail(t)
  \/ TickSave1(t)
  \/ TickSave1Fail(t)
  \/ TickLog(t)
  \/ TickSave2(t)
  \/ TickTerminate(t)
  \/ TickSave2Fail(t)
  \/ CompleteLoad(t)
  \/ CompleteSave(t)
  \/ CompleteFail(t)
  \/ CompleteLog(t)
  \/ \E writeOk \in BOOLEAN : TickCatch(t, writeOk)

CoreStep(width) ==
  \/ \E s \in StartSlots : StartInit(s, width)
  \/ \E s \in StartSlots : StartInitFail(s)
  \/ \E s \in StartSlots : StartArm(s)
  \/ \E id \in StartSlots : TimerFire(id, width)
  \/ \E t \in TickSlots : TickStep(t)

\* the resume route, called while at most width start() calls or their
\* timers are alive
ResumeStep(width) ==
  \/ \E s \in 1..width : ResumeCmd(s)
  \/ \E s \in 1..width : ResumeWrite(s)

CommandStep ==
  \/ PauseCmd
  \/ PauseCmdWrite
  \/ ResumeStep(MaxNarrowStarts)
  \/ AutoStopFire
  \/ AutoStopLoad
  \/ AutoStopSave
  \/ AutoStopFail

\* the simulator with the command surface, at most MaxNarrow ticks in flight
SimNext == CoreStep(MaxNarrow) \/ CommandStep

\* the simulator on its own: the start() of the create route, its timers
\* and its ticks
CoreNext == CoreStep(MaxInFlight)

\* the simulator on its own, at most MaxNarrow ticks in flight
TickNext == CoreStep(MaxNarrow)

SimSpecInit == SimInit /\ worldState = InitialDoc

Spec == SimSpecInit /\ [][SimNext]_vars

SpecCore == SimSpecInit /\ [][CoreNext]_vars

SpecTick == SimSpecInit /\ [][TickNext]_vars

\* the simulator with the resume route calling start() while earlier calls
\* of start() are in progress
StartNext == CoreStep(MaxNarrow) \/ ResumeStep(MaxStarts)

SpecStart == SimSpecInit /\ [][StartNext]_vars

\* the simulator with the pause route.  The event loop runs every
\* continuation that is ready: each executeTick in flight and each start()
\* after its await get their next step
PauseNext == CoreStep(MaxNarrow) \/ PauseCmd \/ PauseCmdWrite

EventLoop ==
  /\ \A t \in TickSlots : WF_vars(TickStep(t))
  /\ \A s \in StartSlots : WF_vars(StartArm(s))

SpecPause == SimSpecInit /\ [][PauseNext]_vars /\ EventLoop

BatchInit == SimInit /\ worldState \in BatchWorlds

SpecBatch == BatchInit /\ [][BatchNext]_vars

(***************************************************************************)
(* The resolution specification: resolveActions called with a list of up   *)
(* to MaxResolved decisions, in which a country may act more than once.    *)
(***************************************************************************)
ResolveDecision(actorId, action, specificAction, target) ==
  [agentId |-> "leader", actorId |-> actorId, action |-> action,
   specificAction |-> specificAction, target |-> target,
   reasoning |-> "capability"]

ResolveDecisions ==
  {ResolveDecision("c1", "DIPLOMACY", "form_alliance", "c2"),
   ResolveDecision("c1", "DIPLOMACY", "break_alliance", "c2"),
   ResolveDecision("c1", "MILITARY", "declare_war", "c2"),
   ResolveDecision("c2", "INTERNAL", "stabilize", NoId)}

DecisionLists ==
  UNION {[1..n -> ResolveDecisions] : n \in 1..MaxResolved}

\* the answers to a resolution prompt, with a second tension mapping
ResolveAnswers ==
  Resolutions \cup
    {[success |-> FALSE, successLevel |-> "FAILURE", changes |-> EmptyMap,
      newTensions |-> [k \in {"c1", "c2"} |-> IF k = "c2" THEN 0 - 10 ELSE 5],
      badChanges |-> FALSE]}

\* resolveActions(worldState, decisions) is entered: the accumulators are
\* empty and the decisions sorted
ResolveActionsCall(decisions) ==
  /\ batch = BatchStart \/ batch.pc = "done"
  /\ batch' = [BatchStart EXCEPT !.pc = "config",
                                 !.decisions = decisions,
                                 !.sorted = prioritizeActions(decisions)]
  /\ UNCHANGED <<worldState, simVars, call>>

ResolveNext ==
  \/ \E decisions \in DecisionLists : ResolveActionsCall(decisions)
  \/ \E outcome \in ConfigOutcomes : ResolveConfig(outcome)
  \/ \E results \in Responses(ResolveAnswers) : ResolveResolution(results)
  \/ ResolveReturn

SpecResolve == SimSpecInit /\ [][ResolveNext]_vars

(***************************************************************************)
(* The phases specification: the first executeTick of a run, phase by      *)
(* phase.  After the load, phase 1 draws the random event; worldState is   *)
(* then the in-memory state handed to collectDecisions and resolveActions, *)
(* whose steps are those of the batch; phases 4 to 7 follow on the value   *)
(* resolveActions returns, then the saves.  No timer fires within the      *)
(* first tick, and the run is RUNNING when it loads.                       *)
(***************************************************************************)
RECURSIVE Concat(_)
Concat(seqs) == IF seqs = <<>> THEN <<>> ELSE Head(seqs) \o Concat(Tail(seqs))

\* the first occurrences of the elements of a sequence, in order
RECURSIVE Distinct(_)
Distinct(seq) ==
  IF seq = <<>> THEN <<>>
  ELSE <<Head(seq)>> \o Distinct(SelectSeq(Tail(seq), LAMBDA x : x # Head(seq)))

\* Object.entries of a mapping from ids: the keys in the order in which the
\* answer of the capability lists them, taken to be that of KeyOrder
KeyOrder == <<"c1", "c2", NoId, AbsentId>>

Keys(map) == SelectSeq(KeyOrder, LAMBDA k : k \in DOMAIN map)

\* the (actor, target) pairs for which the loop of resolveActions wrote a
\* tension value, in the order of the writes
TensionWrites(merged) ==
  Concat([n \in 1..Len(merged) |->
            [i \in 1..Len(Keys(merged[n].resolution.newTensions)) |->
               <<merged[n].decision.actorId,
                 Keys(merged[n].resolution.newTensions)[i]>>]])

\* the nested iteration of applyTensionChanges over the returned mapping:
\* actors in the order of their insertion, and for each its targets in the
\* order of theirs
TensionEntriesOf(b) ==
  LET pairs  == Distinct(TensionWrites(b.merged))
      actors == Distinct([i \in 1..Len(pairs) |-> pairs[i][1]])
      of(a)  == SelectSeq(pairs, LAMBDA pr : pr[1] = a)
  IN  Concat([j \in 1..Len(actors) |->
                [i \in 1..Len(of(actors[j])) |->
                   [actor  |-> actors[j],
                    target |-> of(actors[j])[i][2],
                    delta  |-> b.tensionChanges[actors[j]][of(actors[j])[i][2]]]]])

\* an event object as addEvent receives it: tick and year are set there
Unstamped(e) ==
  [k \in (DOMAIN e) \cup {"tick", "year"} |-> IF k \in DOMAIN e THEN e[k] ELSE 0]

\* { events, changes, tensionChanges } as resolveActions returns them
ResolutionResultOf(b) ==
  [events |-> [n \in 1..Len(b.events) |-> Unstamped(b.events[n])],
   changes |-> b.changes,
   tensionChanges |-> TensionEntriesOf(b)]

\* phase 1: generateRandomEvent returns, the event is appended and its
\* impact applied; collectDecisions is called on the resulting state
TickRandomEvent(t, fires, chosen) ==
  /\ Turn
  /\ ticks[t].pc = "phases"
  /\ \E randomEvent \in generateRandomEvent(ticks[t].ws, ticks[t].ws.tick,
                                             fires, chosen) :
       /\ call' = [op |-> "generateRandomEvent", fires |-> fires,
                   chosen |-> chosen, result |-> randomEvent]
       /\ IF randomEvent = EventThrown
          THEN /\ ticks' = [ticks EXCEPT ![t].pc = "catch"]
               /\ UNCHANGED <<worldState, batch>>
          ELSE /\ ticks' = [ticks EXCEPT ![t].pc = "decide"]
               /\ worldState' = RandomEventPhase(ticks[t].ws, randomEvent)
               /\ batch' = BatchStart
  /\ UNCHANGED <<db, isRunning, tickInterval, timers, starts, pauseCmd,
                 autoStop, pausedSince, lastFinish>>

\* phases 2 and 3 are awaited by the tick in slot t
Deciding(t) == ticks[t].pc = "decide"

DecideSkip(t) == Deciding(t) /\ CollectSkip

DecideCall(t, results) == Deciding(t) /\ CollectCall(results)

DecideBegin(t) == Deciding(t) /\ ResolveBegin

DecideConfig(t, outcome) == Deciding(t) /\ ResolveConfig(outcome)

DecideResolution(t, results) == Deciding(t) /\ ResolveResolution(results)

DecideReturn(t) == Deciding(t) /\ ResolveReturn

\* phases 4 to 7 on what resolveActions returned; then the first save is
\* issued
TickApply(t, overseerInsights) ==
  /\ Turn
  /\ Deciding(t)
  /\ batch.pc = "done"
  /\ ticks' = [ticks EXCEPT
                 ![t].pc = "save1",
                 ![t].ws = ApplyResolution(worldState, ResolutionResultOf(batch),
                                           overseerInsights)]
  /\ UNCHANGED <<call, batch, worldState, db, isRunning, tickInterval, timers,
                 starts, pauseCmd, autoStop, pausedSince, lastFinish>>

PhasesNext ==
  \/ StartInit(1, MaxNarrow)
  \/ StartArm(1)
  \/ TickLoad(1)
  \/ TickLoadFail(1)
  \/ \E fires \in BOOLEAN : \E n \in 1..Len(EventClasses) :
       TickRandomEvent(1, fires, EventClasses[n])
  \/ DecideSkip(1)
  \/ \E results \in Responses(Payloads) : DecideCall(1, results)
  \/ DecideBegin(1)
  \/ \E outcome \in ConfigOutcomes : DecideConfig(1, outcome)
  \/ \E results \in Responses(Resolutions) : DecideResolution(1, results)
  \/ DecideReturn(1)
  \/ \E overseerInsights \in OverseerAnalyses : TickApply(1, overseerInsights)
  \/ TickSave1(1)
  \/ TickSave1Fail(1)
  \/ TickLog(1)
  \/ TickSave2(1)
  \/ TickTerminate(1)
  \/ TickSave2Fail(1)
  \/ CompleteLoad(1)
  \/ CompleteSave(1)
  \/ CompleteFail(1)
  \/ CompleteLog(1)
  \/ \E writeOk \in BOOLEAN : TickCatch(1, writeOk)

SpecPhases == SimSpecInit /\ [][PhasesNext]_vars

(***************************************************************************)
(* The transforms specification: applyChanges applied to a world state     *)
(* any number of times, with the deltas as inputs.                         *)
(***************************************************************************)
\* upper bound kept on population, which the code leaves unbounded above
MaxPopulation == BigDelta

\* per-country delta records in which every stat is defined
FullDeltaRecords == {[x \in StatNames |-> d] : d \in DeltaValues}

\* per-country delta records: none defined, one stat defined, all defined
DeltaRecords ==
  {EmptyMap}
  \cup {[x \in {stat} |-> d] : stat \in StatNames, d \in DeltaValues}
  \cup FullDeltaRecords

\* the changes mappings handed to applyChanges: keyed by the first country or
\* by an id that names no country (any record), or by the second country
\* alone or with another key (full records)
ChangeMaps ==
  UNION {[keys -> {r}] : keys \in {{"c1"}, {AbsentId}}, r \in DeltaRecords}
  \cup UNION {[keys -> {r}] : keys \in {{"c2"}, {"c1", "c2"}, {"c2", AbsentId}},
                              r \in FullDeltaRecords}

InitPowers == {10, 50}
InitStabilities == {3, 50}

MutatorWorlds ==
  {[tick |-> 0, year |-> 0, status |-> "RUNNING", globalEvents |-> <<>>,
    countries |-> <<Country("c1", p, s, 0, 100, 0),
                    Country("c2", 80, 90, 100, 0, BigDelta \div 2)>>] :
     p \in InitPowers, s \in InitStabilities}

MutatorInit == worldState \in MutatorWorlds /\ SimInit

ApplyChangesCall(changes) ==
  /\ \A i \in 1..Len(worldState.countries) :
        applyChanges(worldState, changes).countries[i].population <= MaxPopulation
  /\ worldState' = applyChanges(worldState, changes)
  /\ call' = [op |-> "applyChanges", changes |-> changes,
              before |-> worldState]
  /\ UNCHANGED <<simVars, batch>>

MutatorNext == \E changes \in ChangeMaps : ApplyChangesCall(changes)

SpecMutator == MutatorInit /\ [][MutatorNext]_vars

(***************************************************************************)
(* The tension specification: applyTensionChanges applied to a world state *)
(* up to MaxTensionCalls times, with the delta mapping as input.           *)
(***************************************************************************)
MaxTensionCalls == 3

\* the deltas of a mapping: one that saturates either clamp, one that does not
TensionDeltas == {0 - BigDelta, BigDelta \div 4}

\* the (actor, target) keys of a mapping: two countries of the state in
\* either order, a country naming itself, and an id that names no country as
\* target and as actor
TensionKeys ==
  {<<"c1", "c2">>, <<"c2", "c1">>, <<"c1", "c1">>, <<"c1", AbsentId>>,
   <<AbsentId, "c1">>}

TensionEntries ==
  {[actor |-> k[1], target |-> k[2], delta |-> d] :
     k \in TensionKeys, d \in TensionDeltas}

\* delta mappings with one entry, and with the two directions of a pair
TensionMaps ==
  {<<e>> : e \in TensionEntries}
  \cup {<<[actor |-> "c1", target |-> "c2", delta |-> d1],
          [actor |-> "c2", target |-> "c1", delta |-> d2]>> :
           d1 \in TensionDeltas, d2 \in TensionDeltas}

TensionCalls == IF call.op = "none" THEN 0 ELSE call.n

TensionInit == SimInit /\ worldState = InitialDoc

ApplyTensionChangesCall(tensionChanges) ==
  /\ TensionCalls < MaxTensionCalls
  /\ worldState' = applyTensionChanges(worldState, tensionChanges)
  /\ call' = [op |-> "applyTensionChanges", tensionChanges |-> tensionChanges,
              before |-> worldState, n |-> TensionCalls + 1]
  /\ UNCHANGED <<simVars, batch>>

TensionNext ==
  \E tensionChanges \in TensionMaps : ApplyTensionChangesCall(tensionChanges)

SpecTension == TensionInit /\ [][TensionNext]_vars

(***************************************************************************)
(* The log specification: addEvent and addCountryHistory applied to a      *)
(* world state, up to MaxLogged events and MaxHistory history entries per  *)
(* country.  The call variable keeps every entry handed to either          *)
(* function, in the order of the calls.                                    *)
(***************************************************************************)
MaxLogged == 102
MaxHistory == 12

\* the events handed to addEvent so far, as they were stamped
Logged == IF call.op = "none" THEN <<>> ELSE call.events

\* the entries handed to addCountryHistory so far, by country id
Recorded(countryId) ==
  IF call.op = "none" \/ countryId \notin DOMAIN call.history THEN <<>>
  ELSE call.history[countryId]

LogInit == SimInit /\ worldState = InitialDoc

\* the n-th event of the run; addEvent sets its tick and year
NewEvent(n) == [type |-> "EVENT", n |-> n, tick |-> 0 - 1, year |-> 0 - 1]

AddEventCall ==
  /\ Len(Logged) < MaxLogged
  /\ LET event == NewEvent(Len(Logged) + 1)
     IN  /\ worldState' = addEvent(worldState, event)
         /\ call' = [op |-> "addEvent",
                     events |-> Append(Logged,
                                  [event EXCEPT !.tick = worldState.tick,
                                                !.year = worldState.year]),
                     history |-> [id \in {"c1", "c2"} |-> Recorded(id)]]
  /\ UNCHANGED <<simVars, batch>>

AddCountryHistoryCall(countryId) ==
  /\ Len(Recorded(countryId)) < MaxHistory
  /\ LET historyEntry == Len(Recorded(countryId)) + 1
     IN  /\ worldState' = addCountryHistory(worldState, countryId, historyEntry)
         /\ call' = [op |-> "addCountryHistory",
                     events |-> Logged,
                     history |-> [id \in {"c1", "c2"} |->
                                    IF id = countryId
                                    THEN Append(Recorded(id), historyEntry)
                                    ELSE Recorded(id)]]
  /\ UNCHANGED <<simVars, batch>>

LogNext ==
  \/ AddEventCall
  \/ \E countryId \in {"c1", "c2", AbsentId} : AddCountryHistoryCall(countryId)

SpecLog == LogInit /\ [][LogNext]_vars

(***************************************************************************)
(* The alliance specification: updateAlliances called directly and through *)
(* handleSpecialActions on a state of three countries without alliances.   *)
(***************************************************************************)
AllianceIds == {"c1", "c2", "c3", AbsentId}

AllianceWorld ==
  [InitialDoc EXCEPT !.countries = Append(@, Country("c3", 50, 50, 50, 50, 0))]

AllianceInit == SimInit /\ worldState = AllianceWorld

UpdateAlliancesCall(country1Id, country2Id, action) ==
  /\ worldState' = updateAlliances(worldState, country1Id, country2Id, action)
  /\ call' = [op |-> "updateAlliances", country1Id |-> country1Id,
              country2Id |-> country2Id, action |-> action,
              before |-> worldState]
  /\ UNCHANGED <<simVars, batch>>

\* handleSpecialActions on a decision of a country of the state whose target
\* is another country or none
HandleSpecialActionsCall(decision, resolution) ==
  /\ worldState' = handleSpecialActions(worldState, decision, resolution)
  /\ call' = [op |-> "handleSpecialActions",
              country1Id |-> decision.actorId, country2Id |-> decision.target,
              action |-> decision.specificAction, before |-> worldState]
  /\ UNCHANGED <<simVars, batch>>

AllianceNext ==
  \/ \E country1Id \in AllianceIds, country2Id \in AllianceIds,
        action \in {"FORM", "BREAK"} :
          UpdateAlliancesCall(country1Id, country2Id, action)
  \/ \E actorId \in {"c1"}, target \in {"c2", NoId},
        specificAction \in {"form_alliance", "break_alliance", "declare_war"},
        success \in BOOLEAN :
          HandleSpecialActionsCall(
            [actorId |-> actorId, target |-> target,
             specificAction |-> specificAction],
            [success |-> success])

SpecAlliance == AllianceInit /\ [][AllianceNext]_vars

(***************************************************************************)
(* The termination specification: shouldTerminate and                      *)
(* calculateStabilityIndex applied to a world state                        *)
(* drawn from years around the limit, up to MaxCountries countries around  *)
(* the thresholds of power and stability, and event logs around the window *)
(* of tick summaries.                                                      *)
(***************************************************************************)
MaxCountries == 3

\* power and stability of a country: powerful, power on the threshold,
\* stability on the threshold of the powerful, stability on the threshold of
\* the surviving
Profiles == {<<51, 31>>, <<50, 31>>, <<51, 30>>, <<51, 20>>}

TerminationIds == <<"c1", "c2", "c3", "c4", "c5">>

TerminationCountries ==
  UNION {{[i \in 1..n |-> Country(TerminationIds[i], f[i][1], f[i][2], 0, 0, 0)] :
            f \in [1..n -> Profiles]} : n \in 0..MaxCountries}

Summary(stabilityIndex) ==
  [type |-> "TICK_SUMMARY", stabilityIndex |-> stabilityIndex,
   tick |-> 0, year |-> 0]

\* an entry of the log that is no tick summary
OtherEvent == [type |-> "WAR", tick |-> 0, year |-> 0]

Repeat(e, n) == [k \in 1..n |-> e]

\* event logs: none; 20 summaries at 95; 19 of them; the newest below 95;
\* the newest without an index; an older entry before 20 summaries (an
\* event, a summary below 95); an event between or after 20 summaries
TerminationLogs ==
  {<<>>,
   Repeat(Summary(95), 20),
   Repeat(Summary(95), 19),
   Repeat(Summary(95), 19) \o <<Summary(94)>>,
   Repeat(Summary(95), 19) \o <<[type |-> "TICK_SUMMARY", tick |-> 0, year |-> 0]>>,
   <<OtherEvent>> \o Repeat(Summary(95), 20),
   <<Summary(94)>> \o Repeat(Summary(100), 20),
   Repeat(Summary(95), 10) \o <<OtherEvent>> \o Repeat(Summary(95), 10),
   Repeat(Summary(95), 20) \o <<OtherEvent>>}

TerminationWorlds ==
  {[InitialDoc EXCEPT !.year = year, !.tick = year, !.countries = countries,
                      !.globalEvents = globalEvents] :
     year \in {0, MaxYears - 1, MaxYears},
     countries \in TerminationCountries,
     globalEvents \in TerminationLogs}

TerminationInit == SimInit /\ worldState \in TerminationWorlds

ShouldTerminateCall ==
  /\ call' = [op |-> "shouldTerminate", maxYears |-> MaxYears,
              result |-> shouldTerminate(worldState, MaxYears)]
  /\ UNCHANGED <<worldState, simVars, batch>>

CalculateStabilityIndexCall ==
  /\ call' = [op |-> "calculateStabilityIndex",
              result |-> calculateStabilityIndex(worldState)]
  /\ UNCHANGED <<worldState, simVars, batch>>

TerminationNext == ShouldTerminateCall \/ CalculateStabilityIndexCall

SpecTerminate == TerminationInit /\ [][TerminationNext]_vars

(***************************************************************************)
(* The random event specification: generateRandomEvent and phase 1 of      *)
(* executeTick applied to a world state of up to MaxCountries countries    *)
(* with stabilities around the threshold of an uprising.                   *)
(***************************************************************************)
UprisingStabilities == {20, 59, 60}

RandomCountries ==
  UNION {{[i \in 1..n |-> Country(TerminationIds[i], 50, f[i], 50, 50, 0)] :
            f \in [1..n -> UprisingStabilities]} : n \in 0..MaxCountries}

RandomWorlds ==
  {[InitialDoc EXCEPT !.countries = countries] : countries \in RandomCountries}

RandomInit == SimInit /\ worldState \in RandomWorlds

GenerateRandomEventCall(fires, chosen) ==
  /\ \E randomEvent \in generateRandomEvent(worldState, worldState.tick,
                                             fires, chosen) :
       call' = [op |-> "generateRandomEvent", fires |-> fires,
                chosen |-> chosen, result |-> randomEvent,
                after |-> IF randomEvent = EventThrown THEN worldState
                          ELSE RandomEventPhase(worldState, randomEvent)]
  /\ UNCHANGED <<worldState, simVars, batch>>

RandomNext ==
  \E fires \in BOOLEAN :
    \E n \in 1..Len(EventClasses) :
      GenerateRandomEventCall(fires, EventClasses[n])

SpecRandom == RandomInit /\ [][RandomNext]_vars

(***************************************************************************)
(* The metrics specification: phases 4 and 5 of executeTick applied to a   *)
(* world state of the termination specification, with the resolution       *)
(* result and the overseer analysis as inputs.                             *)
(***************************************************************************)
\* an analysis that also supplies keys of the objective computation
OverseerColliding ==
  [stabilityIndex |-> 0 - 1, explanation |-> "analysis",
   emergingPatterns |-> <<>>, predictions |-> <<>>, hiddenCosts |-> "costs",
   avgStability |-> 0 - 1, survivalRate |-> 0 - 1]

OverseerInsights == {OverseerAnalysis, OverseerFallback, OverseerColliding}

ApplyResolutionCall(resolutionResult, overseerInsights) ==
  /\ call' = [op |-> "applyResolution",
              overseerInsights |-> overseerInsights,
              result |-> ApplyResolution(worldState, resolutionResult,
                                         overseerInsights)]
  /\ UNCHANGED <<worldState, simVars, batch>>

MetricsNext ==
  \E resolutionResult \in ResolutionResults :
    \E overseerInsights \in OverseerInsights :
      ApplyResolutionCall(resolutionResult, overseerInsights)

SpecMetrics == TerminationInit /\ [][MetricsNext]_vars

(***************************************************************************)
(* The ordering specification: prioritizeActions applied to a batch of up  *)
(* to MaxDecisions decisions, one per actor, of any category.              *)
(***************************************************************************)
MaxDecisions == 3

\* the categories of a decision: the four known ones, an unknown one and
\* none at all
Categories == {"MILITARY", "DIPLOMACY", "ESPIONAGE", "INTERNAL", "TRADE", NoId}

DecisionBatches ==
  UNION {{[i \in 1..n |->
             [agentId |-> TerminationIds[i], actorId |-> TerminationIds[i],
              action |-> f[i], specificAction |-> "act", target |-> NoId,
              reasoning |-> "capability"]] :
            f \in [1..n -> Categories]} : n \in 0..MaxDecisions}

PrioritizeInit == SimInit /\ worldState = InitialDoc

PrioritizeActionsCall(decisions) ==
  /\ call' = [op |-> "prioritizeActions", decisions |-> decisions,
              result |-> prioritizeActions(decisions)]
  /\ UNCHANGED <<worldState, simVars, batch>>

PrioritizeNext ==
  \E decisions \in DecisionBatches : PrioritizeActionsCall(decisions)

SpecPrioritize == PrioritizeInit /\ [][PrioritizeNext]_vars

(***************************************************************************)
(* C1.  Starting from stats in [0,100] and population >= 0, after any      *)
(* sequence of applyChanges calls with positive or negative integer deltas *)
(* every country has power, stability, technology and resources in         *)
(* [0,100] and population >= 0.                                            *)
(***************************************************************************)
InRange(v) == v >= 0 /\ v <= 100

C1_StatsBounded ==
  \A i \in 1..Len(worldState.countries) :
    LET c == worldState.countries[i]
    IN  /\ InRange(c.power) /\ InRange(c.stability)
        /\ InRange(c.technology) /\ InRange(c.resources)
        /\ c.population >= 0

\* a state in which both clamps and the population floor have acted: stats
\* that started strictly inside the range sit on 0 and on 100
C1_Witness ==
  /\ worldState.countries[1].power = 100
  /\ worldState.countries[1].stability = 100
  /\ worldState.countries[1].technology = 100
  /\ worldState.countries[1].resources = 0
  /\ worldState.countries[1].population = 0
  /\ worldState.countries[2].power = 0
  /\ worldState.countries[2].stability = 0
  /\ worldState.countries[2].population = 0

(***************************************************************************)
(* C2.  The persisted status of a run only ever changes along the edges    *)
(* RUNNING->PAUSED, RUNNING->COMPLETED, RUNNING->FAILED and                *)
(* PAUSED->RUNNING, under every interleaving of the ticks, complete, the   *)
(* failure handler, the pause and resume commands and the auto-stop timer. *)
(***************************************************************************)
AllowedEdges ==
  {<<"RUNNING", "PAUSED">>, <<"RUNNING", "COMPLETED">>,
   <<"RUNNING", "FAILED">>, <<"PAUSED", "RUNNING">>}

C2_StatusEdges ==
  [][db'.status # db.status => <<db.status, db'.status>> \in AllowedEdges]_vars

(***************************************************************************)
(* C3.  For one run at most one executeTick is in flight at any time.      *)
(***************************************************************************)
C3_OneTickInFlight == InFlight(ticks) <= 1

(***************************************************************************)
(* C4.  Once pause() has returned, no new executeTick is started by the    *)
(* periodic trigger of the simulator until start() is called again.        *)
(***************************************************************************)
TimerTickBegins ==
  \E t \in TickSlots : /\ ticks[t].pc = "free"
                       /\ ticks'[t].pc = "load"
                       /\ ticks'[t].by = ByTimer

C4_NoTickAfterPause == [][pausedSince => ~TimerTickBegins]_vars

(***************************************************************************)
(* C5.  An error thrown at any phase of executeTick is caught inside       *)
(* executeTick: the persisted status is set to FAILED (or the write fails  *)
(* and the document is left as it is), pause() is performed, and           *)
(* executeTick returns normally to its caller, so that a start() awaiting  *)
(* it continues; no executeTick ends by rejecting.                         *)
(***************************************************************************)
NormalReturns == {"skipped", "completed", "terminated", "failed"}

TickEnds(t) == ticks[t].pc # "free" /\ ticks'[t].pc = "free"

C5_FailureHandled ==
  [][\A t \in TickSlots :
       /\ TickEnds(t) => lastFinish' \in NormalReturns
       /\ (ticks[t].pc = "catch" /\ ticks'[t] # ticks[t]) =>
            /\ ticks'[t] = FreeTick
            /\ lastFinish' = "failed"
            /\ db' \in {db, [db EXCEPT !.status = "FAILED", !.error = TRUE]}
            /\ isRunning' = FALSE
            /\ tickInterval' = NoTimer
            /\ tickInterval \notin timers'
            /\ (ticks[t].by # ByTimer => starts'[ticks[t].by] = "arm")]_vars

\* a tick after the first one has failed and the failure is persisted
C5_Witness ==
  /\ lastFinish = "failed"
  /\ db.status = "FAILED"
  /\ db.error
  /\ db.tick >= 1
  /\ ~isRunning
  /\ tickInterval = NoTimer

(***************************************************************************)
(* C6.  When collectDecisions has gone through the agents, the batch holds *)
(* exactly one decision for every leader whose country is in the state and *)
(* has not collapsed, and for a leader whose capability call failed that   *)
(* decision is the fixed fallback decision (INTERNAL, stabilize, no        *)
(* target).                                                                *)
(***************************************************************************)
Factions ==
  {n \in 1..Len(AgentConfigs) :
     /\ AgentConfigs[n].role = "LEADER"
     /\ FindCountry(worldState.countries, AgentConfigs[n].countryId) # 0
     /\ ~Collapsed(worldState.countries[
           FindCountry(worldState.countries, AgentConfigs[n].countryId)])}

DecisionsOf(actorId) ==
  SelectSeq(batch.decisions, LAMBDA d : d.actorId = actorId)

C6_FallbackDecision ==
  batch.pc # "collect" =>
    \A n \in Factions :
      /\ Len(DecisionsOf(AgentConfigs[n].countryId)) = 1
      /\ AgentConfigs[n].id \in batch.failed =>
           DecisionsOf(AgentConfigs[n].countryId)[1] =
             FallbackDecision(AgentConfigs[n])

(***************************************************************************)
(* C7.  For every decision whose resolution capability failed, the events  *)
(* of resolveActions hold exactly one event of that actor, and it is of    *)
(* type FAILED_ACTION with empty impact and success = false.               *)
(***************************************************************************)
EventsOf(actorId) ==
  SelectSeq(batch.events, LAMBDA e : Head(e.actors) = actorId)

C7_FailedActionEvent ==
  \A actorId \in batch.capFailed :
    /\ Len(EventsOf(actorId)) = 1
    /\ EventsOf(actorId)[1].type = "FAILED_ACTION"
    /\ EventsOf(actorId)[1].impact = EmptyMap
    /\ EventsOf(actorId)[1].success = FALSE

C9_FrozenAfterCompleted ==
  [][db.status = "COMPLETED" =>
       /\ db'.tick = db.tick
       /\ db'.year = db.year
       /\ db'.countries = db.countries
       /\ db'.globalEvents = db.globalEvents]_vars

(***************************************************************************)
(* C10.  After a tick has failed, no periodic trigger of the simulator     *)
(* remains armed.                                                          *)
(***************************************************************************)
C10_NoTriggerAfterFailure == lastFinish = "failed" => timers = {}

(***************************************************************************)
(* C11.  For every entry (actor, target, delta) that applyTensionChanges   *)
(* processes with both countries in the state, whatever the two ids are,   *)
(* the step sets the tension of actor toward target to                     *)
(* clamp(old + delta, -100, 100) and the tension of target toward actor to *)
(* clamp(old + 0.7 * delta, -100, 100), both olds read before the step.    *)
(***************************************************************************)
\* the state before entry k of the last call is processed
BeforeEntry(k) ==
  applyTensionChanges(call.before, SubSeq(call.tensionChanges, 1, k - 1))

\* the tension of the country with id from toward id to in state ws
Tension(ws, from, to) ==
  TensionOf(ws.countries[FindCountry(ws.countries, from)], to)

C11_EntryStep ==
  call.op = "applyTensionChanges" =>
    \A k \in 1..Len(call.tensionChanges) :
      LET e    == call.tensionChanges[k]
          pre  == BeforeEntry(k)
          post == BeforeEntry(k + 1)
      IN  (/\ FindCountry(pre.countries, e.actor) # 0
           /\ FindCountry(pre.countries, e.target) # 0)
          => /\ Tension(post, e.actor, e.target) =
                  clampValue(Tension(pre, e.actor, e.target)
                               + TensionScale * e.delta,
                             TensionMin, TensionMax)
             /\ Tension(post, e.target, e.actor) =
                  clampValue(Tension(pre, e.target, e.actor)
                               + ReciprocalTenths * e.delta,
                             TensionMin, TensionMax)

(***************************************************************************)
(* C12.  Starting from tensions in [-100,100], after any sequence of       *)
(* applyTensionChanges calls every tension entry of every country lies in  *)
(* [-100,100].                                                             *)
(***************************************************************************)
C12_TensionsBounded ==
  \A i \in 1..Len(worldState.countries) :
    \A k \in DOMAIN worldState.countries[i].tensions :
      /\ worldState.countries[i].tensions[k] >= TensionMin
      /\ worldState.countries[i].tensions[k] <= TensionMax

\* a call whose delta took a tension past a bound: the new entry sits on the
\* bound although old + delta lies outside the range
C12_Witness ==
  /\ call.op = "applyTensionChanges"
  /\ \E k \in 1..Len(call.tensionChanges) :
       LET e == call.tensionChanges[k]
       IN  /\ FindCountry(worldState.countries, e.actor) # 0
           /\ Tension(BeforeEntry(k), e.actor, e.target)
                + TensionScale * e.delta < TensionMin
           /\ Tension(worldState, e.actor, e.target) = TensionMin
  /\ \E i \in 1..Len(worldState.countries) :
       \E k \in DOMAIN worldState.countries[i].tensions :
         worldState.countries[i].tensions[k] = TensionMax


(***************************************************************************)
(* C13.  After any sequence of addEvent and addCountryHistory calls the    *)
(* global event log holds at most 100 entries and every history at most    *)
(* 10, and each log is the most recent 100 (10) entries that were appended *)
(* to it, in insertion order.                                              *)
(***************************************************************************)
\* the last entries of seq, at most n of them, oldest first
MostRecent(seq, n) ==
  [k \in 1..Min(n, Len(seq)) |-> seq[Len(seq) - Min(n, Len(seq)) + k]]

C13_LogsCapped ==
  /\ Len(worldState.globalEvents) <= EventCap
  /\ worldState.globalEvents = MostRecent(Logged, EventCap)
  /\ \A i \in 1..Len(worldState.countries) :
       /\ Len(worldState.countries[i].history) <= HistoryCap
       /\ worldState.countries[i].history =
            MostRecent(Recorded(worldState.countries[i].id), HistoryCap)

\* more than the cap was appended to the event log and to a history, and the
\* oldest entries are gone
C13_Witness ==
  /\ Len(Logged) > EventCap
  /\ worldState.globalEvents[1] # Logged[1]
  /\ Len(worldState.globalEvents) = EventCap
  /\ \E i \in 1..Len(worldState.countries) :
       /\ Len(Recorded(worldState.countries[i].id)) > HistoryCap
       /\ Len(worldState.countries[i].history) = HistoryCap
       /\ worldState.countries[i].history[1] = 
            Len(Recorded(worldState.countries[i].id)) - HistoryCap + 1


(***************************************************************************)
(* C14.  Alliance membership is symmetric after any sequence of            *)
(* updateAlliances FORM and BREAK operations, those of                     *)
(* handleSpecialActions and those naming an id that is no country of the   *)
(* state included: a country lists another exactly when the other lists    *)
(* it.                                                                     *)
(***************************************************************************)
Lists(ws, i, j) == Includes(ws.countries[i].alliances, ws.countries[j].id)

C14_AlliancesSymmetric ==
  \A i \in 1..Len(worldState.countries) :
    \A j \in 1..Len(worldState.countries) :
      Lists(worldState, i, j) <=> Lists(worldState, j, i)

\* handleSpecialActions has broken one of several alliances
C14_Witness ==
  /\ call.op = "handleSpecialActions"
  /\ call.action = "break_alliance"
  /\ call.before # worldState
  /\ \E i \in 1..Len(worldState.countries) :
       \E j \in 1..Len(worldState.countries) :
         i # j /\ Lists(worldState, i, j)

(***************************************************************************)
(* C15.  updateAlliances is idempotent: FORM applied twice to the same     *)
(* pair gives the state of FORM applied once, with exactly one entry of    *)
(* each country in the list of the other, and BREAK applied twice gives    *)
(* the state of BREAK applied once.                                        *)
(***************************************************************************)
Occurrences(seq, x) == Cardinality({n \in 1..Len(seq) : seq[n] = x})

C15_UpdateIdempotent ==
  \A country1Id \in AllianceIds, country2Id \in AllianceIds :
    LET formed == updateAlliances(worldState, country1Id, country2Id, "FORM")
        broken == updateAlliances(worldState, country1Id, country2Id, "BREAK")
        at1    == FindCountry(worldState.countries, country1Id)
        at2    == FindCountry(worldState.countries, country2Id)
    IN  /\ updateAlliances(formed, country1Id, country2Id, "FORM") = formed
        /\ updateAlliances(broken, country1Id, country2Id, "BREAK") = broken
        /\ (at1 # 0 /\ at2 # 0) =>
             /\ Occurrences(formed.countries[at1].alliances, country2Id) = 1
             /\ Occurrences(formed.countries[at2].alliances, country1Id) = 1

\* the last call repeated a FORM of two countries that were allied already
\* and left the state as it was, one entry on each side
C15_Witness ==
  /\ call.op = "updateAlliances"
  /\ call.action = "FORM"
  /\ call.country1Id = "c1"
  /\ call.country2Id = "c2"
  /\ call.before = worldState
  /\ Occurrences(worldState.countries[1].alliances, "c2") = 1
  /\ Occurrences(worldState.countries[2].alliances, "c1") = 1
  /\ Len(worldState.countries[1].alliances) > 1


(***************************************************************************)
(* C16.  shouldTerminate looks at TIME_LIMIT, HEGEMONY, TOTAL_COLLAPSE and *)
(* PERFECT_ORDER in this order and returns the first that holds:           *)
(* year >= maxYears gives TIME_LIMIT whatever else holds; without          *)
(* TIME_LIMIT and HEGEMONY, no country with stability > 20 gives           *)
(* TOTAL_COLLAPSE; PERFECT_ORDER is returned only when none of the three   *)
(* holds; and when none of the four holds the result is terminate = false. *)
(***************************************************************************)
TimeLimit == worldState.year >= call.maxYears

Powerful ==
  {i \in 1..Len(worldState.countries) :
     worldState.countries[i].power > 50 /\ worldState.countries[i].stability > 30}

Hegemony == Cardinality(Powerful) = 1 /\ Len(worldState.countries) > 1

TotalCollapse ==
  \A i \in 1..Len(worldState.countries) :
    ~(worldState.countries[i].stability > 20)

\* the tick summaries of the whole log, oldest first
Summaries ==
  SelectSeq(worldState.globalEvents, LAMBDA e : e.type = "TICK_SUMMARY")

\* at least 20 tick summaries, the 20 most recent all at 95 or above
PerfectOrder ==
  /\ Len(Summaries) >= 20
  /\ \A k \in (Len(Summaries) - 19)..Len(Summaries) :
       /\ "stabilityIndex" \in DOMAIN Summaries[k]
       /\ Summaries[k].stabilityIndex >= 95

C16_TerminationOrder ==
  call.op = "shouldTerminate" =>
    /\ TimeLimit => call.result = [terminate |-> TRUE, reason |-> "TIME_LIMIT"]
    /\ (~TimeLimit /\ Hegemony)
         => call.result = [terminate |-> TRUE, reason |-> "HEGEMONY"]
    /\ (~TimeLimit /\ ~Hegemony /\ TotalCollapse)
         => call.result = [terminate |-> TRUE, reason |-> "TOTAL_COLLAPSE"]
    /\ call.result.reason = "PERFECT_ORDER"
         => (~TimeLimit /\ ~Hegemony /\ ~TotalCollapse /\ call.result.terminate)
    /\ (~TimeLimit /\ ~Hegemony /\ ~TotalCollapse /\ ~PerfectOrder)
         => ~call.result.terminate

\* the time limit wins over a total collapse
C16_Witness ==
  /\ call.op = "shouldTerminate"
  /\ TimeLimit
  /\ TotalCollapse
  /\ Len(worldState.countries) = 2
  /\ call.result.reason = "TIME_LIMIT"

(***************************************************************************)
(* C17.  For year < maxYears, shouldTerminate returns HEGEMONY exactly     *)
(* when one country and no more has power > 50 and stability > 30 and the  *)
(* world has more than one country.                                        *)
(***************************************************************************)
C17_HegemonyExactly ==
  (call.op = "shouldTerminate" /\ worldState.year < call.maxYears) =>
    (call.result.reason = "HEGEMONY"
       <=> (/\ \E i \in 1..Len(worldState.countries) :
                 /\ worldState.countries[i].power > 50
                 /\ worldState.countries[i].stability > 30
                 /\ \A j \in 1..Len(worldState.countries) :
                      (worldState.countries[j].power > 50
                         /\ worldState.countries[j].stability > 30) => j = i
            /\ Len(worldState.countries) > 1))

\* three countries of which one is powerful
C17_Witness ==
  /\ call.op = "shouldTerminate"
  /\ worldState.year < call.maxYears
  /\ Len(worldState.countries) = 3
  /\ Cardinality(Powerful) = 1
  /\ call.result.reason = "HEGEMONY"

(***************************************************************************)
(* C18.  When neither TIME_LIMIT nor HEGEMONY nor TOTAL_COLLAPSE holds,    *)
(* shouldTerminate returns PERFECT_ORDER exactly when the log holds at     *)
(* least 20 tick summaries and the 20 most recent of them all report a     *)
(* stabilityIndex of 95 or more, whatever other events lie between them.   *)
(***************************************************************************)
C18_PerfectOrderExactly ==
  (/\ call.op = "shouldTerminate"
   /\ ~TimeLimit /\ ~Hegemony /\ ~TotalCollapse)
  => (call.result.reason = "PERFECT_ORDER" <=> PerfectOrder)


(***************************************************************************)
(* C19.  After applyChanges every country addressed by the deltas whose    *)
(* resulting stability is below 5 has power at most 20, whatever positive  *)
(* power delta the call applied; the ceiling works on the power that the   *)
(* additive clamp produced and never raises it.                            *)
(***************************************************************************)
\* clamp(power + delta, 0, 100) of country i of the last call, the power
\* itself when the deltas define none
AddedPower(i) ==
  LET deltas == call.changes[call.before.countries[i].id]
  IN  IF "power" \in DOMAIN deltas
      THEN clampValue(call.before.countries[i].power + deltas["power"], 0, 100)
      ELSE call.before.countries[i].power

C19_CollapseCeiling ==
  call.op = "applyChanges" =>
    \A i \in 1..Len(worldState.countries) :
      worldState.countries[i].id \in DOMAIN call.changes =>
        /\ worldState.countries[i].stability < 5
             => worldState.countries[i].power <= 20
        /\ worldState.countries[i].power <= AddedPower(i)
        /\ worldState.countries[i].power =
             IF worldState.countries[i].stability < 5
             THEN Min(AddedPower(i), 20) ELSE AddedPower(i)

\* a country of stability 3 and power 10 was given a positive power delta
\* and stands at power 20
C19_Witness ==
  /\ call.op = "applyChanges"
  /\ "c1" \in DOMAIN call.changes
  /\ "power" \in DOMAIN call.changes["c1"]
  /\ call.changes["c1"]["power"] > 0
  /\ call.before.countries[1].power = 10
  /\ call.before.countries[1].stability = 3
  /\ worldState.countries[1].stability = 3
  /\ worldState.countries[1].power = 20


(***************************************************************************)
(* C20.  prioritizeActions returns the decisions ordered by the rank of    *)
(* their category, MILITARY 1, DIPLOMACY 2, ESPIONAGE 3, INTERNAL 4, any   *)
(* other or no category 99; decisions of equal rank keep the order they    *)
(* had in the input; the output is a permutation of the input.             *)
(***************************************************************************)
Rank(decision) ==
  IF decision.action = "MILITARY" THEN 1
  ELSE IF decision.action = "DIPLOMACY" THEN 2
  ELSE IF decision.action = "ESPIONAGE" THEN 3
  ELSE IF decision.action = "INTERNAL" THEN 4
  ELSE 99

\* f maps the positions of the output one to one onto those of the input
Rearranges(f, input, output) ==
  /\ \A j \in DOMAIN f : \A k \in DOMAIN f : f[j] = f[k] => j = k
  /\ \A k \in DOMAIN f : output[k] = input[f[k]]

C20_StableByRank ==
  call.op = "prioritizeActions" =>
    LET input  == call.decisions
        output == call.result
    IN  /\ Len(output) = Len(input)
        /\ \E f \in [1..Len(input) -> 1..Len(input)] :
             /\ Rearranges(f, input, output)
             /\ \A j \in 1..Len(output) : \A k \in 1..Len(output) :
                  j < k =>
                    /\ Rank(output[j]) <= Rank(output[k])
                    /\ Rank(output[j]) = Rank(output[k]) => f[j] < f[k]

\* INTERNAL, MILITARY, DIPLOMACY comes back as MILITARY, DIPLOMACY, INTERNAL
C20_Witness ==
  /\ call.op = "prioritizeActions"
  /\ [k \in 1..Len(call.decisions) |-> call.decisions[k].action]
       = <<"INTERNAL", "MILITARY", "DIPLOMACY">>
  /\ [k \in 1..Len(call.result) |-> call.result[k].action]
       = <<"MILITARY", "DIPLOMACY", "INTERNAL">>


(***************************************************************************)
(* C21.  calculateStabilityIndex on a state without countries returns      *)
(* stabilityIndex 0 and every derived field, ideologicalDiversity,         *)
(* conflictLevel, survivalRate, avgStability and powerImbalance, equal     *)
(* to 0.                                                                   *)
(***************************************************************************)
MetricFields ==
  {"stabilityIndex", "ideologicalDiversity", "conflictLevel", "survivalRate",
   "avgStability", "powerImbalance"}

C21_EmptyMetrics ==
  (call.op = "calculateStabilityIndex" /\ Len(worldState.countries) = 0) =>
    \A field \in MetricFields :
      /\ field \in DOMAIN call.result
      /\ call.result[field] = 0


(***************************************************************************)
(* C22.  start() on a simulator that is not running marks it running and   *)
(* begins exactly one tick; it arms the periodic timer only after that     *)
(* tick has returned.  start() on a simulator that is running, its first   *)
(* tick in progress or not, begins no tick and arms no timer.              *)
(***************************************************************************)
\* the ticks in flight that start() call s awaits
TicksOf(tk, s) == {t \in TickSlots : tk[t].pc # "free" /\ tk[t].by = s}

C22_StartOneTick ==
  [][\A s \in StartSlots :
       /\ (starts[s] = "init" /\ starts'[s] = "firstTick")
            => /\ isRunning'
               /\ Cardinality(TicksOf(ticks', s)) = 1
               /\ InFlight(ticks') = InFlight(ticks) + 1
               /\ timers' = timers
       /\ starts'[s] = "firstTick" => Cardinality(TicksOf(ticks', s)) = 1
       /\ (s \in timers' /\ s \notin timers)
            => /\ starts[s] = "arm"
               /\ TicksOf(ticks, s) = {}
               /\ ticks' = ticks
       /\ (starts[s] = "write" /\ starts'[s] # "write" /\ isRunning)
            => /\ starts'[s] = "idle"
               /\ ticks' = ticks
               /\ timers' = timers
               /\ tickInterval' = tickInterval]_vars

\* start() is about to be called a second time while the simulator is
\* running and the first tick of the first call is in progress
C22_Witness ==
  /\ starts[1] = "firstTick"
  /\ TicksOf(ticks, 1) # {}
  /\ isRunning
  /\ starts[2] = "write"


(***************************************************************************)
(* C23.  pause() is idempotent and does not abort a tick in progress: a    *)
(* second pause() right after the first would change nothing, the pause    *)
(* leaves every tick in flight and the persisted state as they are, and a  *)
(* tick that is past its load runs on to its return, through its           *)
(* completion or its failure handling.                                     *)
(***************************************************************************)
\* the step is a call of pause() by the pause route
PauseCalled == pauseCmd = "idle" /\ pauseCmd' = "write"

C23_PauseKeepsTicks ==
  /\ [][PauseCalled =>
          /\ ticks' = ticks
          /\ db' = db
          /\ PauseTimers' = timers'
          /\ tickInterval' = NoTimer
          /\ isRunning' = FALSE]_vars
  /\ \A t \in TickSlots :
       (ticks[t].pc \notin {"free", "load"}) ~> (ticks[t].pc = "free")

\* pause() has returned while the first tick of start() is in flight, and
\* the tick is about to persist its results
C23_Witness ==
  /\ pausedSince
  /\ ~isRunning
  /\ \E t \in TickSlots : ticks[t].by = 1 /\ ticks[t].pc = "save1"


(***************************************************************************)
(* C24.  After every applyChanges call, each country addressed by the      *)
(* deltas has collapsing = true exactly when the stability it holds in     *)
(* the returned state is below 20 and the power it holds there is below    *)
(* 30.                                                                     *)
(***************************************************************************)
C24_CollapsingFlag ==
  call.op = "applyChanges" =>
    \A i \in 1..Len(worldState.countries) :
      worldState.countries[i].id \in DOMAIN call.changes =>
        (worldState.countries[i].collapsing
           <=> (/\ worldState.countries[i].stability < 20
                /\ worldState.countries[i].power < 30))


(***************************************************************************)
(* C25.  resolveActions returns exactly one event for every decision whose *)
(* actor has a configuration and none for a decision whose actor has none, *)
(* in the prioritized order, whether the resolution and the handling of    *)
(* special actions succeed or fail; no decision produces two events.       *)
(***************************************************************************)
\* the actors of the decisions that were not skipped, in prioritized order
ResolvedActors ==
  LET kept == SelectSeq(batch.sorted, LAMBDA d : d.actorId \notin batch.skipped)
  IN  [k \in 1..Len(kept) |-> kept[k].actorId]

C25_OneEventPerDecision ==
  batch.pc = "done" =>
    [k \in 1..Len(batch.events) |-> Head(batch.events[k].actors)]
      = ResolvedActors


(***************************************************************************)
(* C26.  The stat deltas that resolveActions returns are, for each country *)
(* and each stat, the sum of the deltas of that stat over all resolutions  *)
(* of the batch that address the country; nothing is clamped before        *)
(* applyChanges applies the sum, which clamps once.                        *)
(***************************************************************************)
\* the delta of stat x for country k in the impact of an event, 0 if none
ImpactOf(e, k, x) ==
  IF k \in DOMAIN e.impact /\ x \in DOMAIN e.impact[k] THEN e.impact[k][x]
  ELSE 0

\* the sum of the deltas of stat x for country k over the resolved events
SumImpact(k, x) ==
  SumSeq([n \in 1..Len(batch.events) |-> ImpactOf(batch.events[n], k, x)])

\* the countries and the stats that some resolved event addresses
Addressed == UNION {DOMAIN batch.events[n].impact : n \in 1..Len(batch.events)}

AddressedStats(k) ==
  UNION {DOMAIN batch.events[n].impact[k] :
           n \in {m \in 1..Len(batch.events) : k \in DOMAIN batch.events[m].impact}}

Naming(a, k) ==
  {n \in 1..Len(batch.merged) :
     /\ batch.merged[n].decision.actorId = a
     /\ k \in DOMAIN batch.merged[n].resolution.newTensions}

LastNaming(a, k) ==
  CHOOSE n \in Naming(a, k) : \A m \in Naming(a, k) : m <= n

TensionGiven(n, k) == batch.merged[n].resolution.newTensions[k]

\* the actors and the targets met in the loop or in the returned mapping
TensionActors ==
  {batch.merged[n].decision.actorId : n \in 1..Len(batch.merged)}
    \cup DOMAIN batch.tensionChanges

TensionTargets ==
  UNION {DOMAIN batch.merged[n].resolution.newTensions :
           n \in 1..Len(batch.merged)}
    \cup UNION {DOMAIN batch.tensionChanges[a] : a \in DOMAIN batch.tensionChanges}

C27_TensionsOverwritten ==
  \A a \in TensionActors :
    \A k \in TensionTargets :
      IF Naming(a, k) = {}
      THEN ~(a \in DOMAIN batch.tensionChanges
               /\ k \in DOMAIN batch.tensionChanges[a])
      ELSE /\ a \in DOMAIN batch.tensionChanges
           /\ k \in DOMAIN batch.tensionChanges[a]
           /\ batch.tensionChanges[a][k] = TensionGiven(LastNaming(a, k), k)

\* resolveActions has returned after two decisions of one actor were given
\* different deltas towards the same target
C27_Witness ==
  /\ batch.pc = "done"
  /\ \E n, m \in Naming("c1", "c2") :
       /\ n < m
       /\ TensionGiven(n, "c2") # TensionGiven(m, "c2")
       /\ TensionGiven(n, "c2") # 0


(***************************************************************************)
(* C28.  A form_alliance decision adds the alliance of actor and target    *)
(* only when its resolution reports success and leaves the alliances as    *)
(* they were otherwise; a break_alliance decision removes it whatever the  *)
(* success flag; both take effect in the iteration of that decision,       *)
(* before the next decision is resolved, and no other step of the loop     *)
(* touches the alliances.                                                  *)
(***************************************************************************)
\* country a lists b among its alliances in state ws
Allied(ws, a, b) ==
  /\ FindCountry(ws.countries, a) # 0
  /\ Includes(ws.countries[FindCountry(ws.countries, a)].alliances, b)

BothAllied(ws, a, b) == Allied(ws, a, b) /\ Allied(ws, b, a)

NoneAllied(ws, a, b) == ~Allied(ws, a, b) /\ ~Allied(ws, b, a)

\* the iteration of the decision at batch.j runs to its end in this step
Handled == Len(batch'.merged) = Len(batch.merged) + 1

C28_AllianceEffects ==
  [][IF batch.pc = "resolution" /\ Handled
     THEN LET decision == batch.sorted[batch.j]
              resolution == batch'.merged[Len(batch'.merged)].resolution
          IN  CASE decision.specificAction = "form_alliance" ->
                     IF resolution.success
                     THEN BothAllied(worldState', decision.actorId,
                                     decision.target)
                     ELSE worldState' = worldState
                [] decision.specificAction = "break_alliance" ->
                     NoneAllied(worldState', decision.actorId,
                                decision.target)
                [] OTHER -> worldState' = worldState
     ELSE worldState' = worldState]_vars

\* an alliance formed by a successful resolution has just been broken by a
\* decision whose resolution reports no success
C28_Witness ==
  /\ Len(batch.merged) = 2
  /\ batch.pc = "config"
  /\ batch.merged[1].decision.specificAction = "form_alliance"
  /\ batch.merged[1].resolution.success
  /\ batch.merged[2].decision.specificAction = "break_alliance"
  /\ ~batch.merged[2].resolution.success
  /\ NoneAllied(worldState, "c1", "c2")


(***************************************************************************)
(* C29.  After phase 5 of a tick, and so after phase 6, which leaves the   *)
(* metrics alone, every metrics key that calculateStabilityIndex computes  *)
(* holds the computed value whatever the overseer analysis supplied for    *)
(* it, and every key of the analysis that the computation does not produce *)
(* is kept as the overseer gave it.                                        *)
(***************************************************************************)
\* the objective metrics of the state the tick has reached
Computed == calculateStabilityIndex(call.result)

C29_ObjectiveWins ==
  call.op = "applyResolution" =>
    /\ DOMAIN call.result.metrics
         = (DOMAIN Computed) \cup (DOMAIN call.overseerInsights)
    /\ \A k \in DOMAIN Computed : call.result.metrics[k] = Computed[k]
    /\ \A k \in (DOMAIN call.overseerInsights) \ (DOMAIN Computed) :
         call.result.metrics[k] = call.overseerInsights[k]

\* the analysis gave a stability index other than the computed one, and a
\* key the computation does not produce
C29_Witness ==
  /\ call.op = "applyResolution"
  /\ Len(call.result.countries) > 0
  /\ call.overseerInsights.stabilityIndex # Computed.stabilityIndex
  /\ call.result.metrics.stabilityIndex = Computed.stabilityIndex
  /\ "avgStability" \in DOMAIN call.overseerInsights
  /\ call.result.metrics.hiddenCosts = "costs"


(***************************************************************************)
(* C30.  The persisted tick never decreases and year equals tick in every  *)
(* persisted state; each executeTick that runs on a RUNNING state to its   *)
(* second save without failure raises the persisted tick and year by       *)
(* exactly one.                                                            *)
(***************************************************************************)
\* the executeTick invocation in slot t gets its second save through
SecondSave(t) ==
  /\ ticks[t].pc = "save2"
  /\ ticks'[t].pc \notin {"save2", "catch"}

C30_TickCounts ==
  [][/\ db'.tick >= db.tick
     /\ db'.year = db'.tick
     /\ \A t \in TickSlots :
          SecondSave(t) => /\ db'.tick = db.tick + 1
                           /\ db'.year = db.year + 1]_vars


(***************************************************************************)
(* C32.  Every event that generateRandomEvent returns carries an impact    *)
(* for exactly one country, a country of the state; a REBELLION event      *)
(* targets a country whose stability is below 60; when the uprising class  *)
(* is chosen and no country has stability below 60, nothing is returned    *)
(* and phase 1 leaves the state of the tick as it was loaded.              *)
(***************************************************************************)
Returned == call.result.type \notin {NoEvent.type, EventThrown.type}

\* the countries an event carries an impact for
Affected == DOMAIN call.result.impact

StateIds == {worldState.countries[i].id : i \in 1..Len(worldState.countries)}

StabilityOf(id) == worldState.countries[FindCountry(worldState.countries, id)].stability

NoneUnstable ==
  \A i \in 1..Len(worldState.countries) : worldState.countries[i].stability >= 60

C32_EventTargets ==
  call.op = "generateRandomEvent" =>
    /\ Returned =>
         /\ Cardinality(Affected) = 1
         /\ Affected \subseteq StateIds
         /\ call.result.actors = <<CHOOSE id \in Affected : TRUE>>
         /\ call.result.type = "REBELLION" =>
              \A id \in Affected : StabilityOf(id) < 60
    /\ (call.fires /\ call.chosen = "POPULAR_UPRISING" /\ NoneUnstable) =>
         /\ call.result = NoEvent
         /\ call.after = worldState

\* an uprising was returned in a state where another country is stable, and
\* phase 1 has appended it
C32_Witness ==
  /\ call.op = "generateRandomEvent"
  /\ call.chosen = "POPULAR_UPRISING"
  /\ Returned
  /\ call.result.type = "REBELLION"
  /\ \E i \in 1..Len(worldState.countries) :
       worldState.countries[i].stability >= 60
  /\ Len(call.after.globalEvents) = 1


(***************************************************************************)
(* C31.  The phases of a tick occur in a fixed order: a generated random   *)
(* event is appended and its impact applied before any decision is         *)
(* collected; every decision is collected before any is resolved; the      *)
(* summed stat deltas are applied, then the tension deltas, and the        *)
(* resolved events are appended after both; the metrics are computed on    *)
(* the state so reached; the first save precedes the advance of tick and   *)
(* year, and the termination check follows the second save.                *)
(***************************************************************************)
\* a decision is pushed by collectDecisions in this step
Collected == Len(batch'.decisions) > Len(batch.decisions)

\* an event is pushed by resolveActions in this step
Resolved == Len(batch'.events) > Len(batch.events)

\* phases 4 to 7 run in this step
Applied == ticks[1].pc = "decide" /\ ticks'[1].pc = "save1"

\* the resolved events as the log holds them after phase 4
StampedEvents ==
  [n \in 1..Len(batch.events) |->
     [Unstamped(batch.events[n]) EXCEPT !.tick = worldState.tick,
                                        !.year = worldState.year]]

EventBeforeDecisions ==
  Collected =>
    /\ Deciding(1)
    /\ call.op = "generateRandomEvent"
    /\ call.result # NoEvent =>
         /\ worldState.globalEvents
              = Append(ticks[1].ws.globalEvents, call.result)
         /\ worldState.countries
              = applyChanges(ticks[1].ws, call.result.impact).countries
    /\ call.result = NoEvent => worldState = ticks[1].ws

DecisionsBeforeResolutions ==
  /\ Collected => batch.events = <<>> /\ batch.pc = "collect"
  /\ Resolved => /\ batch.pc \in {"config", "resolution"}
                 /\ batch.i > Len(AgentConfigs)
                 /\ batch'.decisions = batch.decisions

DeltasThenEventsThenMetrics ==
  Applied =>
    /\ batch.pc = "done"
    /\ ticks'[1].ws.countries
         = applyTensionChanges(applyChanges(worldState, batch.changes),
                               TensionEntriesOf(batch)).countries
    /\ ticks'[1].ws.globalEvents = worldState.globalEvents \o StampedEvents
    /\ \A k \in DOMAIN calculateStabilityIndex(ticks'[1].ws) :
         ticks'[1].ws.metrics[k] = calculateStabilityIndex(ticks'[1].ws)[k]

SaveBeforeAdvance ==
  /\ (ticks[1].pc = "save1" /\ ticks'[1].pc = "log") =>
       /\ db'.tick = db.tick
       /\ db'.countries = ticks[1].ws.countries
       /\ db'.globalEvents = ticks[1].ws.globalEvents
  /\ (ticks[1].pc = "log" /\ ticks'[1].pc = "save2") =>
       /\ db' = db
       /\ ticks'[1].ws.tick = ticks[1].ws.tick + 1
       /\ ticks'[1].ws.year = ticks[1].ws.year + 1
  /\ db'.tick # db.tick =>
       /\ ticks[1].pc = "save2"
       /\ db.countries = ticks[1].ws.countries
       /\ db'.tick = db.tick + 1

TerminationAfterSecondSave ==
  /\ (ticks'[1].pc = "cLoad" /\ ticks[1].pc # "cLoad") =>
       /\ ticks[1].pc = "save2"
       /\ db'.tick = ticks[1].ws.tick
       /\ shouldTerminate(ticks[1].ws, MaxYears).terminate
  /\ (db'.status = "COMPLETED" /\ db.status # "COMPLETED") =>
       db.tick = ticks[1].ws.tick

C31_PhaseOrder ==
  [][/\ EventBeforeDecisions
     /\ DecisionsBeforeResolutions
     /\ DeltasThenEventsThenMetrics
     /\ SaveBeforeAdvance
     /\ TerminationAfterSecondSave]_vars

\* a tick with a random event, two resolved decisions, stat and tension
\* deltas has run through its second save
C31_Witness ==
  /\ lastFinish = "completed"
  /\ call.op = "generateRandomEvent"
  /\ call.result # NoEvent
  /\ Len(batch.events) = 2
  /\ DOMAIN batch.changes # {}
  /\ DOMAIN batch.tensionChanges # {}
  /\ db.tick = 1
  /\ Len(db.globalEvents) = 3


(***************************************************************************)
(* C33.  A faction whose country has stability < 10 and power < 10 when    *)
(* the decisions are collected is not asked and contributes no decision,   *)
(* no event, no stat delta and no tension delta to the tick; a faction     *)
(* with only one of the two below 10 is asked for its decision.            *)
(***************************************************************************)
\* the leaders whose country is in the state, by position in AgentConfigs
Leaders ==
  {n \in 1..Len(AgentConfigs) :
     /\ AgentConfigs[n].role = "LEADER"
     /\ FindCountry(worldState.countries, AgentConfigs[n].countryId) # 0}

CountryOf(n) ==
  worldState.countries[FindCountry(worldState.countries,
                                   AgentConfigs[n].countryId)]

\* the capability was called for the agent: its decision was pushed, or
\* the call failed
Asked(n) ==
  \/ \E d \in 1..Len(batch.decisions) :
       batch.decisions[d].agentId = AgentConfigs[n].id
  \/ AgentConfigs[n].id \in batch.failed

\* the country acts in the batch: a decision, an event, a merged
\* resolution or a tension entry has it as actor
Acts(id) ==
  \/ \E d \in 1..Len(batch.decisions) : batch.decisions[d].actorId = id
  \/ \E e \in 1..Len(batch.events) : batch.events[e].actors[1] = id
  \/ \E m \in 1..Len(batch.merged) : batch.merged[m].decision.actorId = id
  \/ id \in DOMAIN batch.tensionChanges

C33_CollapsedSkipped ==
  \A n \in Leaders :
    IF CountryOf(n).stability < 10 /\ CountryOf(n).power < 10
    THEN ~Asked(n) /\ ~Acts(AgentConfigs[n].countryId)
    ELSE batch.i > n => Asked(n)

\* the batch of a state whose first country has collapsed has returned with
\* an event of the other country, whose resolution addresses the collapsed
\* one
C33_Witness ==
  /\ batch.pc = "done"
  /\ worldState.countries[1].stability < 10
  /\ worldState.countries[1].power < 10
  /\ Len(batch.events) = 1
  /\ batch.events[1].actors[1] = "c2"
  /\ "c1" \in DOMAIN batch.changes


(***************************************************************************)
(* C34.  getStatus().isRunning is true exactly when a periodic tick timer  *)
(* of the simulator is armed or the first tick of a start() is in          *)
(* progress; in particular no timer is armed while isRunning is false.     *)
(***************************************************************************)
\* the first executeTick of a start() has not returned yet
FirstTickInProgress == \E s \in StartSlots : starts[s] = "firstTick"

\* stated for the states in which no start() is between the return of its
\* first tick and its setInterval
C34_StatusAgrees ==
  ~ArmPending => (isRunning <=> (timers # {} \/ FirstTickInProgress))


(***************************************************************************)
(* C35.  A simulator never has more than one periodic tick timer armed,    *)
(* and the only armed timer, if any, is the one recorded in tickInterval,  *)
(* so that pause() can cancel every timer the simulator ever armed.        *)
(***************************************************************************)
C35_OneTimerRecorded ==
  /\ Cardinality(timers) <= 1
  /\ timers \subseteq {tickInterval}


(***************************************************************************)
(* C36.  A tick that fails before its first save leaves the persisted      *)
(* countries, globalEvents, metrics, tick and year as they were before the *)
(* tick: nothing is written before phase 8, and the failure handler        *)
(* changes the status, to FAILED, and the error message only.              *)
(***************************************************************************)
\* the persisted fields a failed tick must leave alone
Kept(doc) == <<doc.countries, doc.globalEvents, doc.metrics, doc.tick, doc.year>>

\* some executeTick is at a statement that writes the persisted state
Writing(pcs) == \E t \in TickSlots : ticks[t].pc \in pcs

C36_FailureKeepsState ==
  [][/\ db' # db => Writing({"save1", "save2", "cSave", "catch"})
     /\ \A t \in TickSlots :
          /\ (ticks[t].pc \in {"load", "phases"} /\ ticks'[t].pc = "catch")
               => db' = db
          /\ (ticks[t].pc = "catch" /\ ticks'[t].pc # "catch")
               => /\ Kept(db') = Kept(db)
                  /\ \/ db' = db
                     \/ db' = [db EXCEPT !.status = "FAILED", !.error = TRUE]]_vars

\* a tick has failed before its first save and has returned; the persisted
\* state is that of the creation but for status and error
C36_Witness ==
  /\ lastFinish = "failed"
  /\ db.status = "FAILED"
  /\ db.error
  /\ Kept(db) = Kept(InitialDoc)
  /\ InFlight(ticks) = 0


(***************************************************************************)
(* C37.  A status written to the persisted state while a tick is in flight *)
(* is still the persisted status after the saves of that tick: a save of   *)
(* executeTick never replaces the persisted status by the RUNNING value    *)
(* the tick read at its load.                                              *)
(***************************************************************************)
\* the first or the second save of the executeTick in slot t takes effect
TickSaves(t) ==
  \/ ticks[t].pc = "save1" /\ ticks'[t].pc = "log"
  \/ ticks[t].pc = "save2" /\ ticks'[t].pc \in {"free", "cLoad"}

C37_SaveKeepsStatus ==
  [][\A t \in TickSlots : TickSaves(t) => db'.status = db.status]_vars


(***************************************************************************)
(* C38.  executeTick appends no entry of type TICK_SUMMARY to globalEvents *)
(* (logTick writes the summary to the event log store only), so from an    *)
(* empty globalEvents the termination check never answers PERFECT_ORDER,   *)
(* however many entries of the kinds the ticks append the log holds.       *)
(***************************************************************************)
NoSummary(doc) ==
  \A n \in 1..Len(doc.globalEvents) : doc.globalEvents[n].type # "TICK_SUMMARY"

\* the window of shouldTerminate, in entries of the log
SummaryWindow == 20

\* the document with its log repeated until it fills the window
Prolonged(doc) ==
  [doc EXCEPT !.globalEvents =
     Concat([n \in 1..SummaryWindow |-> doc.globalEvents])]

C38_NoPerfectOrder ==
  /\ NoSummary(db)
  /\ NoSummary(worldState)
  /\ \A t \in TickSlots :
       /\ NoSummary(ticks[t].ws)
       /\ ticks[t].pc = "save2" =>
            /\ shouldTerminate(ticks[t].ws, MaxYears).reason # "PERFECT_ORDER"
            /\ shouldTerminate(Prolonged(ticks[t].ws), MaxYears).reason
                 # "PERFECT_ORDER"

\* the termination check is about to run on a state to which the tick has
\* appended a random event and two resolved events, and logTick has
\* returned
C38_Witness ==
  /\ ticks[1].pc = "save2"
  /\ Len(ticks[1].ws.globalEvents) = 3
  /\ Len(Prolonged(ticks[1].ws).globalEvents) >= SummaryWindow
  /\ ~shouldTerminate(ticks[1].ws, MaxYears).terminate


(***************************************************************************)
(* C39.  All resolutions of one call of resolveActions are computed        *)
(* against the same stat snapshot: while the loop runs, no field of a      *)
(* country other than its alliances changes in the state (power,           *)
(* stability, technology, resources, population and tensions change only   *)
(* in phase 4), whereas the alliance formed or broken by an earlier        *)
(* decision is already in the state passed to the resolution of every      *)
(* later decision.                                                         *)
(***************************************************************************)
\* the countries of a state without their alliances
StatsOf(ws) ==
  [n \in DOMAIN ws.countries |-> [ws.countries[n] EXCEPT !.alliances = <<>>]]

InLoop == batch.pc \in {"config", "resolution"}

\* the merged entry changes the alliance of its actor and target
Special(m) ==
  \/ m.decision.specificAction = "form_alliance" /\ m.resolution.success
  \/ m.decision.specificAction = "break_alliance"

SamePair(m, k) ==
  {m.decision.actorId, m.decision.target}
    = {k.decision.actorId, k.decision.target}

\* every alliance change of an earlier decision that no later one has
\* undone is in the state
EarlierAlliancesVisible ==
  \A n \in 1..Len(batch.merged) :
    LET m == batch.merged[n]
    IN  (/\ Special(m)
         /\ \A k \in (n+1)..Len(batch.merged) :
              ~(Special(batch.merged[k]) /\ SamePair(m, batch.merged[k])))
        => IF m.decision.specificAction = "form_alliance"
           THEN BothAllied(worldState, m.decision.actorId, m.decision.target)
           ELSE NoneAllied(worldState, m.decision.actorId, m.decision.target)

C39_SameSnapshot ==
  /\ [][InLoop => StatsOf(worldState') = StatsOf(worldState)]_vars
  /\ [](batch.pc = "resolution" => EarlierAlliancesVisible)

\* the resolution of the second decision is in flight: the first decision
\* formed the alliance and its changes are accumulated, the state passed
\* holds the alliance and the stats of the start of the call
C39_Witness ==
  /\ batch.pc = "resolution"
  /\ batch.j = 2
  /\ Len(batch.merged) = 1
  /\ batch.merged[1].decision.specificAction = "form_alliance"
  /\ batch.merged[1].resolution.success
  /\ "c1" \in DOMAIN batch.changes
  /\ BothAllied(worldState, "c1", "c2")
  /\ StatsOf(worldState) = StatsOf(InitialDoc)

====
